---- MODULE Spec2Model ----
(***************************************************************************)
(* A model of ndiff.c (numerical diff of two files): the number lexer, the *)
(* number scanner ndiff_nextNum, the tolerance evaluator ndiff_testNum,    *)
(* the line operations and the driver ndiff_loop.                          *)
(*                                                                         *)
(* A line is a sequence of one-character strings.  A buffer holds the      *)
(* bytes of its C string; byte i (0-based) of buffer b is At(b, i): the    *)
(* terminator sits at index Len(b) and the bytes behind it are not part    *)
(* of the line (stale or never written).  A double is an exact rational.   *)
(***************************************************************************)
EXTENDS Integers, Sequences, FiniteSets, TLC

VARIABLES
  dif,    \* struct ndiff: streams, counters, options, registers, buffers
  pc,     \* where the client is: "api", or a position inside ndiff_loop
  loc,    \* the locals of ndiff_loop: row, col, ret, c
  out,    \* what ndiff_outLine has written to lhs_fp and rhs_fp
  last    \* the last operation: its name, arguments and result

vars == <<dif, pc, loc, out, last>>

----------------------------------------------------------------------------
(* Characters *)

NUL   == "NUL"
INDET == "INDET"
NL    == "\n"
EOF   == "EOF"

Digits == {"0", "1", "2", "3", "4", "5", "6", "7", "8", "9"}
Blanks == {" ", "\t"}
Puncts == {"=", ".", "-", "+", "_", ",", ":", "#"}
Signs  == {"-", "+"}
ExpMarks == {"e", "E", "d", "D"}

\* option.chr: punctuation characters that count as identifier characters
option_chr == {"_"}

isdigit(c) == c \in Digits
isblank(c) == c \in Blanks
ispunct(c) == c \in Puncts
isspace(c) == c \in Blanks \cup {NL}

DigitVal(c) ==
  CASE c = "0" -> 0 [] c = "1" -> 1 [] c = "2" -> 2 [] c = "3" -> 3
    [] c = "4" -> 4 [] c = "5" -> 5 [] c = "6" -> 6 [] c = "7" -> 7
    [] c = "8" -> 8 [] c = "9" -> 9

\* byte i (0-based) of the C string held in b
At(b, i) ==
  IF i >= 0 /\ i < Len(b) THEN b[i + 1]
  ELSE IF i = Len(b) THEN NUL
  ELSE INDET

strlen(b) == Len(b)

imax(a, b) == IF a > b THEN a ELSE b
imin(a, b) == IF a < b THEN a ELSE b

\* first index j >= i whose byte is not in S
RECURSIVE SkipWhile(_, _, _)
SkipWhile(b, i, S) ==
  IF At(b, i) \in S THEN SkipWhile(b, i + 1, S) ELSE i

\* first index j >= i whose byte is NUL or in S
RECURSIVE SkipUntil(_, _, _)
SkipUntil(b, i, S) ==
  IF At(b, i) = NUL \/ At(b, i) \in S \/ At(b, i) = INDET THEN i
  ELSE SkipUntil(b, i + 1, S)

----------------------------------------------------------------------------
(* Doubles, as exact rationals n/d with d > 0 in lowest terms *)

Abs(x) == IF x < 0 THEN -x ELSE x

RECURSIVE GCD(_, _)
GCD(a, b) == IF b = 0 THEN a ELSE GCD(b, a % b)

Rat(n, d) ==
  LET s == IF d < 0 THEN -1 ELSE 1
      g == GCD(Abs(n), Abs(d))
  IN  [n |-> (s * n) \div g, d |-> (s * d) \div g]

R(k)  == [n |-> k, d |-> 1]
Zero  == R(0)
One   == R(1)

RAdd(x, y) == Rat(x.n * y.d + y.n * x.d, x.d * y.d)
RSub(x, y) == Rat(x.n * y.d - y.n * x.d, x.d * y.d)
RMul(x, y) == Rat(x.n * y.n, x.d * y.d)
RDiv(x, y) == Rat(x.n * y.d, x.d * y.n)
RNeg(x)    == [n |-> -x.n, d |-> x.d]
RLt(x, y)  == x.n * y.d < y.n * x.d
RGt(x, y)  == RLt(y, x)
fabs(x)    == [n |-> Abs(x.n), d |-> x.d]
fmin(x, y) == IF RLt(y, x) THEN y ELSE x

RECURSIVE IPow10(_)
IPow10(k) == IF k = 0 THEN 1 ELSE 10 * IPow10(k - 1)

pow10(k) == IF k >= 0 THEN R(IPow10(k)) ELSE Rat(1, IPow10(-k))

----------------------------------------------------------------------------
(* Number lexer *)

is_separator(c) ==
  c = NUL \/ isblank(c) \/ (ispunct(c) /\ c \notin option_chr)

\* buf = b + p
is_number(b, p) ==
  LET i1 == IF At(b, p) \in {"-", "+", " "} THEN p + 1 ELSE p
      i2 == IF At(b, i1) = "." THEN i1 + 1 ELSE i1
  IN  isdigit(At(b, i2))

\* backtrack_number leaving the cursor on a blank before the number
backtrack_number_blank(b, p) ==
  IF At(b, p) = "." THEN
    IF p > 0 /\ At(b, p - 1) \in Signs THEN p - 1 ELSE p
  ELSE IF isdigit(At(b, p)) THEN
    LET q == IF p > 0 /\ At(b, p - 1) = "." THEN p - 1 ELSE p
    IN  IF q > 0 /\ At(b, q - 1) \in Signs THEN q - 1 ELSE q
  ELSE p

\* the new position of buf = b + p; beg is position 0
backtrack_number(b, p) ==
  IF At(b, p) = " " THEN p + 1
  ELSE IF At(b, p) = "." THEN
    IF p > 0 /\ At(b, p - 1) \in Signs THEN p - 1 ELSE p
  ELSE IF isdigit(At(b, p)) THEN
    LET q == IF p > 0 /\ At(b, p - 1) = "." THEN p - 1 ELSE p
    IN  IF q > 0 /\ At(b, q - 1) \in Signs THEN q - 1 ELSE q
  ELSE p

is_number_start(b, p) ==
  At(b, p) \in Signs \/ p = 0 \/ (p > 0 /\ is_separator(At(b, p - 1)))

\* parse_number(b + p, &d, &n, &e, &f) yields the length accepted, the
\* outputs, and the buffer, whose exponent marker the lexer rewrites in place.
\* The steps follow the function from its end to its start; i, i2, .. are
\* positions in b, where the function counts from buf = b + p.

\* parse_number_exponent that rolls back without restoring the marker
parse_number_exponent_rewritten(b, p, n, d, i, j) ==
  IF isdigit(At(b, j - 1))
  THEN [len |-> j - p, n |-> n, d |-> d - 1, e |-> (i - p + 1) - 1, f |-> TRUE,
        buf |-> [b EXCEPT ![i + 1] = "e"]]
  ELSE [len |-> i - p, n |-> n, d |-> d - 1, e |-> -1, f |-> d > 0,
        buf |-> [b EXCEPT ![i + 1] = "e"]]

\* the exponent behind the marker at i: j is behind its sign and digits; the
\* marker is 'e' when a digit ends the exponent and is restored otherwise
parse_number_exponent(b, p, n, d, i, j) ==
  IF isdigit(At(b, j - 1))
  THEN [len |-> j - p, n |-> n, d |-> d - 1, e |-> (i - p + 1) - 1, f |-> TRUE,
        buf |-> [b EXCEPT ![i + 1] = "e"]]
  ELSE [len |-> i - p, n |-> n, d |-> d - 1, e |-> -1, f |-> d > 0, buf |-> b]

\* the mantissa ends at i with n digits counted, d the place behind the dot
parse_number_mantissa(b, p, n, d, i) ==
  IF ~(i - p > 0 /\ (isdigit(At(b, i - 1))
                     \/ (i - p > 1 /\ isdigit(At(b, i - 2)))))
  THEN [len |-> 0, n |-> 0, d |-> 0, e |-> 0, f |-> FALSE, buf |-> b]
  ELSE IF At(b, i) \in ExpMarks
  THEN parse_number_exponent(b, p, n, d, i,
         SkipWhile(b, IF At(b, i + 1) \in Signs THEN i + 2 ELSE i + 1, Digits))
  ELSE [len |-> i - p, n |-> n, d |-> d - 1, e |-> -1, f |-> d > 0, buf |-> b]

\* the decimals: i4 is behind the dot, i5 behind the zeros dropped when no
\* digit was counted before the dot
parse_number_decimals(b, p, n, i4, i5) ==
  parse_number_mantissa(b, p, n + (SkipWhile(b, i5, Digits) - i5), i4 - p,
                        SkipWhile(b, i5, Digits))

\* the dot: i2 is behind the sign and the leading zeros, i3 behind the digits
parse_number_dot(b, p, i2, i3) ==
  IF At(b, i3) = "."
  THEN parse_number_decimals(b, p, i3 - i2, i3 + 1,
         IF i3 = i2 THEN SkipWhile(b, i3 + 1, {"0"}) ELSE i3 + 1)
  ELSE parse_number_mantissa(b, p, i3 - i2, 0, i3)

parse_number_digits(b, p, i2) == parse_number_dot(b, p, i2, SkipWhile(b, i2, Digits))

parse_number(b, p) ==
  parse_number_digits(b, p,
    SkipWhile(b, IF At(b, p) \in Signs THEN p + 1 ELSE p, {"0"}))

\* the value of the digit string b[from .. to-1], continued from acc
RECURSIVE DigitsVal(_, _, _, _)
DigitsVal(b, from, to, acc) ==
  IF from >= to THEN acc
  ELSE DigitsVal(b, from + 1, to, 10 * acc + DigitVal(At(b, from)))

\* strtod(b + p, &end) of the C library, for decimal and hexadecimal
\* floating-point literals: the value and the place of end.  The lexer
\* accepts no text that starts 'inf' or 'nan'.

\* mant * 10^k, negated when neg
strtod_value(neg, mant, k, end) ==
  [val |-> IF neg THEN RNeg(IF k >= 0 THEN R(mant * IPow10(k))
                                      ELSE Rat(mant, IPow10(-k)))
           ELSE IF k >= 0 THEN R(mant * IPow10(k)) ELSE Rat(mant, IPow10(-k)),
   end |-> end]

\* the exponent digits b[x2 .. x3-1]: without a digit the exponent is not
\* part of the number, which ends at mend
strtod_exponent(b, neg, mant, nfrac, mend, xneg, x2, x3) ==
  IF x3 > x2
  THEN strtod_value(neg, mant,
         (IF xneg THEN -DigitsVal(b, x2, x3, 0) ELSE DigitsVal(b, x2, x3, 0))
         - nfrac, x3)
  ELSE strtod_value(neg, mant, -nfrac, mend)

\* the mantissa mant of nint + nfrac digits ends at mend
strtod_mantissa(b, p, neg, nint, nfrac, mend, mant) ==
  IF nint + nfrac = 0 THEN [val |-> Zero, end |-> p]
  ELSE IF At(b, mend) \in {"e", "E"}
  THEN strtod_exponent(b, neg, mant, nfrac, mend, At(b, mend + 1) = "-",
         IF At(b, mend + 1) \in Signs THEN mend + 2 ELSE mend + 1,
         SkipWhile(b, IF At(b, mend + 1) \in Signs THEN mend + 2 ELSE mend + 1,
                   Digits))
  ELSE strtod_value(neg, mant, -nfrac, mend)

\* the digits b[s1 .. s2-1] and the decimals behind a dot at s2
strtod_digits(b, p, neg, s1, s2) ==
  IF At(b, s2) = "."
  THEN strtod_mantissa(b, p, neg, s2 - s1, SkipWhile(b, s2 + 1, Digits) - (s2 + 1),
         SkipWhile(b, s2 + 1, Digits),
         DigitsVal(b, s2 + 1, SkipWhile(b, s2 + 1, Digits), DigitsVal(b, s1, s2, 0)))
  ELSE strtod_mantissa(b, p, neg, s2 - s1, 0, s2, DigitsVal(b, s1, s2, 0))

\* a hexadecimal floating-point literal, which strtod accepts since C99
HexDigits == Digits \cup {"a", "b", "c", "d", "e", "f", "A", "B", "C", "D", "E", "F"}

HexVal(c) ==
  CASE c \in Digits -> DigitVal(c)
    [] c \in {"a", "A"} -> 10
    [] c \in {"b", "B"} -> 11
    [] c \in {"c", "C"} -> 12
    [] c \in {"d", "D"} -> 13
    [] c \in {"e", "E"} -> 14
    [] OTHER -> 15

RECURSIVE HexDigitsVal(_, _, _, _)
HexDigitsVal(b, from, to, acc) ==
  IF from >= to THEN acc
  ELSE HexDigitsVal(b, from + 1, to, 16 * acc + HexVal(At(b, from)))

RECURSIVE IPow2(_)
IPow2(k) == IF k <= 0 THEN 1 ELSE 2 * IPow2(k - 1)

\* mant * 2^k, negated when neg
strtod_hex_value(neg, mant, k, end) ==
  [val |-> IF neg THEN RNeg(IF k >= 0 THEN R(mant * IPow2(k))
                                      ELSE Rat(mant, IPow2(-k)))
           ELSE IF k >= 0 THEN R(mant * IPow2(k)) ELSE Rat(mant, IPow2(-k)),
   end |-> end]

\* the binary exponent digits b[x2 .. x3-1] behind 'p'
strtod_hex_exponent(b, neg, mant, nfrac, mend, xneg, x2, x3) ==
  IF x3 > x2
  THEN strtod_hex_value(neg, mant,
         (IF xneg THEN -DigitsVal(b, x2, x3, 0) ELSE DigitsVal(b, x2, x3, 0))
         - 4 * nfrac, x3)
  ELSE strtod_hex_value(neg, mant, -4 * nfrac, mend)

\* the hexadecimal mantissa of nint + nfrac digits ends at mend; without a
\* hexadecimal digit the number is the '0' before the 'x', at s1
strtod_hex_mantissa(b, neg, s1, nint, nfrac, mend, mant) ==
  IF nint + nfrac = 0 THEN [val |-> Zero, end |-> s1 + 1]
  ELSE IF At(b, mend) \in {"p", "P"}
  THEN strtod_hex_exponent(b, neg, mant, nfrac, mend, At(b, mend + 1) = "-",
         IF At(b, mend + 1) \in Signs THEN mend + 2 ELSE mend + 1,
         SkipWhile(b, IF At(b, mend + 1) \in Signs THEN mend + 2 ELSE mend + 1,
                   Digits))
  ELSE strtod_hex_value(neg, mant, -4 * nfrac, mend)

\* the hexadecimal digits b[h1 .. h2-1] behind '0x' and those behind a dot
strtod_hex_digits(b, neg, s1, h1, h2) ==
  IF At(b, h2) = "."
  THEN strtod_hex_mantissa(b, neg, s1, h2 - h1,
         SkipWhile(b, h2 + 1, HexDigits) - (h2 + 1),
         SkipWhile(b, h2 + 1, HexDigits),
         HexDigitsVal(b, h2 + 1, SkipWhile(b, h2 + 1, HexDigits),
                      HexDigitsVal(b, h1, h2, 0)))
  ELSE strtod_hex_mantissa(b, neg, s1, h2 - h1, 0, h2, HexDigitsVal(b, h1, h2, 0))

\* the base: '0x' or '0X' at s1, behind the sign, starts a hexadecimal
\* literal
strtod_base(b, p, neg, s1) ==
  IF At(b, s1) = "0" /\ At(b, s1 + 1) \in {"x", "X"}
  THEN strtod_hex_digits(b, neg, s1, s1 + 2, SkipWhile(b, s1 + 2, HexDigits))
  ELSE strtod_digits(b, p, neg, s1, SkipWhile(b, s1, Digits))

\* the sign at s0, behind the white space
strtod_sign(b, p, s0) ==
  strtod_base(b, p, At(b, s0) = "-", IF At(b, s0) \in Signs THEN s0 + 1 ELSE s0)

strtod(b, p) == strtod_sign(b, p, SkipWhile(b, p, Blanks \cup {NL}))

----------------------------------------------------------------------------
(* Rules (struct constraint) and registers *)

Flags == {"skip", "goto", "gonum", "equ", "ign", "abs", "rel", "dig", "any",
          "omit", "istr", "lhs", "rhs", "swap", "save", "nofail", "onfail",
          "trace", "traceR", "sgg"}

eps_dra == {"dig", "rel", "abs"}

\* a rule with the given commands and tag, comparing the plain values:
\* scale 1, offset 0, every bound 0, no register, every column
Rule(cmd, tag) ==
  [cmd |-> cmd, tag |-> tag, col |-> [full |-> TRUE, elems |-> {}],
   lhs |-> Zero, rhs |-> Zero, scl |-> One, off |-> Zero,
   abs |-> Zero, _abs |-> Zero, rel |-> Zero, _rel |-> Zero,
   dig |-> Zero, _dig |-> Zero,
   lhs_reg |-> 0, rhs_reg |-> 0, scl_reg |-> 0, off_reg |-> 0,
   abs_reg |-> 0, _abs_reg |-> 0, rel_reg |-> 0, _rel_reg |-> 0,
   dig_reg |-> 0, _dig_reg |-> 0, gto_reg |-> 0, ops |-> <<>>]

slice_isFull(s) == s.full
slice_isElem(s, k) == s.full \/ k \in s.elems

reg_getval(reg, reg_n, i, val) ==
  IF 1 <= i /\ i <= reg_n THEN reg[i] ELSE val

reg_setval(reg, reg_n, i, val) ==
  IF 1 <= i /\ i <= reg_n THEN [reg EXCEPT ![i] = val] ELSE reg

\* reg_eval(reg, reg_n, dst, src, src2, op) of register.h, for the one
\* operation the model's rules use: the sum of two registers
reg_eval(reg, reg_n, dst, src, src2, op) ==
  IF op = "+"
  THEN reg_setval(reg, reg_n, dst, RAdd(reg_getval(reg, reg_n, src, Zero),
                                        reg_getval(reg, reg_n, src2, Zero)))
  ELSE reg

\* reg_ops running no operation
reg_ops_none(reg, reg_n, ops) == reg

\* for (i = 0; i < op_n; i++) reg_eval(reg, reg_n, dst[i], src[i], src2[i], op[i])
RECURSIVE reg_ops(_, _, _)
reg_ops(reg, reg_n, ops) ==
  IF ops = <<>> THEN reg
  ELSE reg_ops(reg_eval(reg, reg_n, Head(ops).dst, Head(ops).src, Head(ops).src2,
                        Head(ops).op),
               reg_n, Tail(ops))

----------------------------------------------------------------------------
(* Number scanner *)

\* is_valid_omit(lhs_b + lp, rhs_b + rp, dif, tag), comparing the k-th byte
\* before the cursors with the k-th byte from the end of the tag
RECURSIVE ValidOmitFrom(_, _, _, _, _, _)
ValidOmitFrom(lb, rb, lp, rp, tag, k) ==
  IF k > Len(tag) \/ lp - k < 0 \/ rp - k < 0 THEN TRUE
  ELSE IF tag[Len(tag) - k + 1] # At(lb, lp - k)
          \/ tag[Len(tag) - k + 1] # At(rb, rp - k) THEN FALSE
  ELSE ValidOmitFrom(lb, rb, lp, rp, tag, k + 1)

is_valid_omit(lb, rb, lp, rp, tag) == ValidOmitFrom(lb, rb, lp, rp, tag, 1)

\* the number of bytes both cursors step over in lockstep while the bytes
\* are equal and S does not hold the left one, which is not NUL
RECURSIVE Lockstep(_, _, _, _, _)
Lockstep(lb, rb, lp, rp, S) ==
  IF At(lb, lp) # NUL /\ At(lb, lp) = At(rb, rp) /\ At(lb, lp) \notin S
     /\ At(lb, lp) # INDET
  THEN 1 + Lockstep(lb, rb, lp + 1, rp + 1, S)
  ELSE 0

Separators == {c \in Blanks \cup Puncts : is_separator(c)}

\* skip_identifier(&lhs, &rhs, strict) on both sides
skip_identifier2(lb, rb, lp, rp, strict) ==
  IF strict
  THEN LET k == Lockstep(lb, rb, lp, rp, Separators)
       IN  [lp |-> lp + k, rp |-> rp + k]
  ELSE [lp |-> SkipUntil(lb, lp, Separators),
        rp |-> SkipUntil(rb, rp, Separators)]

\* skip_identifier(&p, 0, false) on one side
skip_identifier1(b, p) == SkipUntil(b, p, Separators)

\* The steps of one pass of ndiff_nextNum, from the label retry to goto
\* retry, quit_str, quit_diff or the numbers found.

\* nextNum_search stepping the lhs cursor alone over the equal bytes
nextNum_search_lhs(lb, rb, lp, rp, c) ==
  IF "istr" \in c.cmd
  THEN [lp |-> SkipUntil(lb, lp, Digits), rp |-> SkipUntil(rb, rp, Digits)]
  ELSE [lp |-> lp + Lockstep(lb, rb, lp, rp, Digits), rp |-> rp]

\* the search for digits, or for a difference or digits
nextNum_search(lb, rb, lp, rp, c) ==
  IF "istr" \in c.cmd
  THEN [lp |-> SkipUntil(lb, lp, Digits), rp |-> SkipUntil(rb, rp, Digits)]
  ELSE [lp |-> lp + Lockstep(lb, rb, lp, rp, Digits),
        rp |-> rp + Lockstep(lb, rb, lp, rp, Digits)]

\* the cursors, backtracked, at the start of a number or inside a word
nextNum_start(lb, rb, lp, rp, c) ==
  IF is_number_start(lb, lp) /\ is_number_start(rb, rp)
  THEN [kind |-> "num", lp |-> lp, rp |-> rp]
  ELSE IF "istr" \in c.cmd
  THEN [kind |-> "retry",
        lp |-> IF ~is_number_start(lb, lp) THEN skip_identifier1(lb, lp) ELSE lp,
        rp |-> IF ~is_number_start(rb, rp) THEN skip_identifier1(rb, rp) ELSE rp]
  ELSE [kind |-> "retry",
        lp |-> skip_identifier2(lb, rb, lp, rp,
                 IF "omit" \in c.cmd THEN ~is_valid_omit(lb, rb, lp, rp, c.tag)
                 ELSE TRUE).lp,
        rp |-> skip_identifier2(lb, rb, lp, rp,
                 IF "omit" \in c.cmd THEN ~is_valid_omit(lb, rb, lp, rp, c.tag)
                 ELSE TRUE).rp]

\* nextNum_stop skipping the blanks only where the lhs side faces one
nextNum_stop_lhs(lb, rb, lp, rp, c, blank) ==
  IF "istr" \notin c.cmd /\ blank /\ isblank(At(lb, lp))
  THEN [kind |-> "retry", lp |-> SkipWhile(lb, lp, Blanks),
                          rp |-> SkipWhile(rb, rp, Blanks)]
  ELSE IF At(lb, lp) = NUL /\ At(rb, rp) = NUL
  THEN [kind |-> "str", lp |-> lp, rp |-> rp]
  ELSE IF At(lb, lp) # At(rb, rp) /\ (~is_number(lb, lp) \/ ~is_number(rb, rp))
  THEN [kind |-> "diff", lp |-> lp, rp |-> rp]
  ELSE nextNum_start(lb, rb, backtrack_number(lb, lp), backtrack_number(rb, rp), c)

\* nextNum_stop asking for the omit tag before it tells a text difference
nextNum_stop_omit(lb, rb, lp, rp, c, blank) ==
  IF "istr" \notin c.cmd /\ blank /\ (isblank(At(lb, lp)) \/ isblank(At(rb, rp)))
  THEN [kind |-> "retry", lp |-> SkipWhile(lb, lp, Blanks),
                          rp |-> SkipWhile(rb, rp, Blanks)]
  ELSE IF At(lb, lp) = NUL /\ At(rb, rp) = NUL
  THEN [kind |-> "str", lp |-> lp, rp |-> rp]
  ELSE IF At(lb, lp) # At(rb, rp) /\ (~is_number(lb, lp) \/ ~is_number(rb, rp))
  THEN IF "omit" \in c.cmd /\ is_valid_omit(lb, rb, lp, rp, c.tag)
       THEN [kind |-> "retry", lp |-> skip_identifier1(lb, lp),
                               rp |-> skip_identifier1(rb, rp)]
       ELSE [kind |-> "diff", lp |-> lp, rp |-> rp]
  ELSE nextNum_start(lb, rb, backtrack_number(lb, lp), backtrack_number(rb, rp), c)

\* the cursors where the search stopped
nextNum_stop(lb, rb, lp, rp, c, blank) ==
  IF "istr" \notin c.cmd /\ blank /\ (isblank(At(lb, lp)) \/ isblank(At(rb, rp)))
  THEN [kind |-> "retry", lp |-> SkipWhile(lb, lp, Blanks),
                          rp |-> SkipWhile(rb, rp, Blanks)]
  ELSE IF At(lb, lp) = NUL /\ At(rb, rp) = NUL
  THEN [kind |-> "str", lp |-> lp, rp |-> rp]
  ELSE IF At(lb, lp) # At(rb, rp) /\ (~is_number(lb, lp) \/ ~is_number(rb, rp))
  THEN [kind |-> "diff", lp |-> lp, rp |-> rp]
  ELSE nextNum_start(lb, rb, backtrack_number(lb, lp), backtrack_number(rb, rp), c)

nextNum_pass(lb, rb, lp, rp, c, blank) ==
  nextNum_stop(lb, rb, nextNum_search(lb, rb, lp, rp, c).lp,
               nextNum_search(lb, rb, lp, rp, c).rp, c, blank)

\* the retry loop from the outcome s of the last pass: the passes are
\* deterministic, so the loop never ends exactly when a pass starts from
\* cursors an earlier pass started from
RECURSIVE nextNum_scan(_, _, _, _, _, _)
nextNum_scan(lb, rb, s, c, blank, seen) ==
  IF s.kind # "retry" THEN s
  ELSE IF <<s.lp, s.rp>> \in seen THEN [kind |-> "hang", lp |-> s.lp, rp |-> s.rp]
  ELSE nextNum_scan(lb, rb, nextNum_pass(lb, rb, s.lp, s.rp, c, blank), c, blank,
                    seen \cup {<<s.lp, s.rp>>})

ndiff_isempty(d) ==
  At(d.lhs_b, d.lhs_i) = NUL /\ At(d.rhs_b, d.rhs_i) = NUL

\* quit_diff_log writing the warnings whatever max_i is
quit_diff_log_uncapped(d, c, lines) ==
  IF "nofail" \notin c.cmd
  THEN (IF d.cnt_i + 1 = 1 THEN <<"header">> ELSE <<>>) \o lines
  ELSE <<>>

\* the warnings of quit_diff, in ndiff_nextNum and in ndiff_testNum: none
\* under nofail or when the count, once incremented, exceeds max_i;
\* otherwise the header if the count became 1, and then the lines given
quit_diff_log(d, c, lines) ==
  IF "nofail" \notin c.cmd /\ d.cnt_i + 1 <= d.max_i
  THEN (IF d.cnt_i + 1 = 1 THEN <<"header">> ELSE <<>>) \o lines
  ELSE <<>>

\* the warnings that tell the axes of ret
axes_log(ret) ==
  (IF "ign" \in ret THEN <<"missing">> ELSE <<>>)
  \o (IF "equ" \in ret THEN <<"equ">> ELSE <<>>)
  \o (IF "abs" \in ret THEN <<"abs">> ELSE <<>>)
  \o (IF "rel" \in ret THEN <<"rel">> ELSE <<>>)
  \o (IF "dig" \in ret THEN <<"dig">> ELSE <<>>)

\* nextNum_quit leaving col_i as it is at quit_diff and quit_str
nextNum_quit_col(d, c, s) ==
  CASE s.kind = "hang" ->
         [dif |-> d, ret |-> 0, diff |-> FALSE, hang |-> TRUE, log |-> <<>>]
    [] s.kind = "num" ->
         [dif |-> [d EXCEPT !.lhs_i = s.lp, !.rhs_i = s.rp,
                            !.num_i = d.num_i + 1, !.col_i = d.col_i + 1],
          ret |-> d.col_i + 1, diff |-> FALSE, hang |-> FALSE, log |-> <<>>]
    [] OTHER ->
         [dif |-> [d EXCEPT !.lhs_i = s.lp + 1, !.rhs_i = s.rp + 1,
                            !.cnt_i = IF s.kind = "diff" /\ "nofail" \notin c.cmd
                                      THEN d.cnt_i + 1 ELSE d.cnt_i],
          ret |-> 0, diff |-> s.kind = "diff", hang |-> FALSE,
          log |-> IF s.kind = "diff"
                  THEN quit_diff_log(d, c, <<"differ", "strings">>) ELSE <<>>]

\* the exits of ndiff_nextNum: the numbers found, quit_diff and quit_str
nextNum_quit(d, c, s) ==
  CASE s.kind = "hang" ->
         [dif |-> d, ret |-> 0, diff |-> FALSE, hang |-> TRUE, log |-> <<>>]
    [] s.kind = "num" ->
         [dif |-> [d EXCEPT !.lhs_i = s.lp, !.rhs_i = s.rp,
                            !.num_i = d.num_i + 1, !.col_i = d.col_i + 1],
          ret |-> d.col_i + 1, diff |-> FALSE, hang |-> FALSE, log |-> <<>>]
    [] OTHER ->
         [dif |-> [d EXCEPT !.lhs_i = s.lp + 1, !.rhs_i = s.rp + 1,
                            !.cnt_i = IF s.kind = "diff" /\ "nofail" \notin c.cmd
                                      THEN d.cnt_i + 1 ELSE d.cnt_i,
                            !.col_i = 0],
          ret |-> 0, diff |-> s.kind = "diff", hang |-> FALSE,
          log |-> IF s.kind = "diff"
                  THEN quit_diff_log(d, c, <<"differ", "strings">>) ELSE <<>>]

\* ndiff_nextNum(dif, c): the new struct, the column returned, whether a
\* text difference was surfaced, and whether the call never returns
ndiff_nextNum(d, c) ==
  nextNum_quit(d, c,
    IF ndiff_isempty(d)
    THEN [kind |-> "str", lp |-> d.lhs_i, rp |-> d.rhs_i]
    ELSE nextNum_scan(d.lhs_b, d.rhs_b,
                      [kind |-> "retry", lp |-> d.lhs_i, rp |-> d.rhs_i],
                      c, d.blank, {}))

----------------------------------------------------------------------------
(* Tolerance evaluator *)

\* bound and lower bound of one axis: the lower bound is minus the bound
\* when both name the same register
Bound(d, reg, val)  == reg_getval(d.reg, d.reg_n, reg, val)
LowBound(d, reg, lreg, val, lval) ==
  IF lreg # 0 /\ lreg = reg THEN RNeg(Bound(d, reg, val))
  ELSE reg_getval(d.reg, d.reg_n, lreg, lval)

Outside(x, hi, lo) == RGt(x, hi) \/ RLt(x, lo)

\* The steps of ndiff_testNum, from its end to its start.  p1 and p2 are
\* what parse_number made of the two numbers; vals are lhs_d, rhs_d, dif_d,
\* err_d, abs_d, rel_d, dig_d, min_d, pow_d.

\* testNum_quit writing the registers whatever ret is
testNum_quit_regs(d, c, p1, p2, ret, vals, abort) ==
  [dif |-> [d EXCEPT
      !.lhs_b = p1.buf, !.rhs_b = p2.buf,
      !.cnt_i = IF ret # {} /\ "nofail" \notin c.cmd THEN @ + 1 ELSE @,
      !.reg = reg_ops([i \in DOMAIN d.reg |-> IF i \in 1..9 THEN vals[i] ELSE d.reg[i]],
                      d.reg_n, c.ops),
      !.lhs_i = @ + p1.len, !.rhs_i = @ + p2.len],
   ret |-> ret, abort |-> abort,
   log |-> IF ret # {}
           THEN quit_diff_log(d, c, <<"differ", "numbers">> \o axes_log(ret))
           ELSE <<>>]

\* quit: the registers are written when ret is 0 or save is commanded, and
\* the cursors step over the numbers; quit_diff counts the difference
testNum_quit(d, c, p1, p2, ret, vals, abort) ==
  [dif |-> [d EXCEPT
      !.lhs_b = p1.buf, !.rhs_b = p2.buf,
      !.cnt_i = IF ret # {} /\ "nofail" \notin c.cmd THEN @ + 1 ELSE @,
      !.reg = IF ret = {} \/ "save" \in c.cmd
              THEN reg_ops([i \in DOMAIN d.reg |->
                     IF i = 1 THEN
                       IF c.lhs_reg # 0 \/ "lhs" \in c.cmd
                       THEN IF "swap" \in c.cmd THEN strtod(p2.buf, d.rhs_i).val
                            ELSE strtod(p1.buf, d.lhs_i).val
                       ELSE vals[1]
                     ELSE IF i = 2 THEN
                       IF c.rhs_reg # 0 \/ "rhs" \in c.cmd
                       THEN IF "swap" \in c.cmd THEN strtod(p1.buf, d.lhs_i).val
                            ELSE strtod(p2.buf, d.rhs_i).val
                       ELSE vals[2]
                     ELSE IF i \in 3..9 THEN vals[i]
                     ELSE d.reg[i]], d.reg_n, c.ops)
              ELSE @,
      !.lhs_i = @ + p1.len, !.rhs_i = @ + p2.len],
   ret |-> ret, abort |-> abort,
   log |-> IF ret # {}
           THEN quit_diff_log(d, c, <<"differ", "numbers">> \o axes_log(ret))
           ELSE <<>>]

\* the axes violated, of those the rule enables
testNum_axes(d, c, p1, p2, vals) ==
  (IF "abs" \in c.cmd
      /\ Outside(vals[5], Bound(d, c.abs_reg, c.abs),
                 LowBound(d, c.abs_reg, c._abs_reg, c.abs, c._abs))
   THEN {"abs"} ELSE {})
  \cup (IF "rel" \in c.cmd
           /\ Outside(vals[6], Bound(d, c.rel_reg, c.rel),
                      LowBound(d, c.rel_reg, c._rel_reg, c.rel, c._rel))
        THEN {"rel"} ELSE {})
  \cup (IF "dig" \in c.cmd /\ (p1.f \/ p2.f)
           /\ Outside(vals[7], Bound(d, c.dig_reg, c.dig),
                      LowBound(d, c.dig_reg, c._dig_reg, c.dig, c._dig))
        THEN {"dig"} ELSE {})

\* testNum_same on the bytes of the lines as they were given, before
\* parse_number rewrote the exponent markers
testNum_same_input(d, p1, p2) ==
  p1.len = p2.len /\ SubSeq(d.lhs_b, d.lhs_i + 1, d.lhs_i + p1.len)
                     = SubSeq(d.rhs_b, d.rhs_i + 1, d.rhs_i + p1.len)

\* l1 == l2 && !memcmp(lhs_p, rhs_p, l1), on the buffers as parse_number
\* left them
testNum_same(d, p1, p2) ==
  p1.len = p2.len /\ SubSeq(p1.buf, d.lhs_i + 1, d.lhs_i + p1.len)
                     = SubSeq(p2.buf, d.rhs_i + 1, d.rhs_i + p1.len)

\* testNum_compare where any clears ret only when no axis is violated
testNum_compare_any(d, c, p1, p2, vals, abort) ==
  testNum_quit(d, c, p1, p2,
    IF "ign" \in c.cmd THEN {}
    ELSE IF "omit" \in c.cmd
            /\ is_valid_omit(p1.buf, p2.buf, d.lhs_i, d.rhs_i, c.tag) THEN {}
    ELSE IF "equ" \in c.cmd
      THEN (IF testNum_same(d, p1, p2) THEN {} ELSE {"equ"})
    ELSE testNum_axes(d, c, p1, p2, vals),
    vals, abort)

\* ign, omit, equ, the axes and any, in the order of the code
testNum_compare(d, c, p1, p2, vals, abort) ==
  testNum_quit(d, c, p1, p2,
    IF "ign" \in c.cmd THEN {}
    ELSE IF "omit" \in c.cmd
            /\ is_valid_omit(p1.buf, p2.buf, d.lhs_i, d.rhs_i, c.tag) THEN {}
    ELSE IF "equ" \in c.cmd
      THEN (IF testNum_same(d, p1, p2) THEN {} ELSE {"equ"})
    ELSE IF "any" \in c.cmd
            /\ (testNum_axes(d, c, p1, p2, vals) \cap eps_dra) # (c.cmd \cap eps_dra)
      THEN {}
    ELSE testNum_axes(d, c, p1, p2, vals),
    vals, abort)

\* testNum_errors with dif_d the sum of lhs_d and rhs_d
testNum_errors_sum(d, c, p1, p2, lhs_d, rhs_d, scl_d, off_d, min_d, pow_d, abort) ==
  LET dif_d == RAdd(lhs_d, rhs_d)
      err_d == RMul(scl_d, RAdd(lhs_d, rhs_d))
      abs_d == RAdd(RMul(scl_d, RAdd(lhs_d, rhs_d)), off_d)
  IN  testNum_compare(d, c, p1, p2,
        <<lhs_d, rhs_d, dif_d, err_d, abs_d, RDiv(abs_d, min_d),
          RDiv(abs_d, RMul(min_d, pow_d)), min_d, pow_d>>, abort)

\* compute errors
testNum_errors(d, c, p1, p2, lhs_d, rhs_d, scl_d, off_d, min_d, pow_d, abort) ==
  LET dif_d == RSub(lhs_d, rhs_d)
      err_d == RMul(scl_d, RSub(lhs_d, rhs_d))
      abs_d == RAdd(RMul(scl_d, RSub(lhs_d, rhs_d)), off_d)
  IN  testNum_compare(d, c, p1, p2,
        <<lhs_d, rhs_d, dif_d, err_d, abs_d, RDiv(abs_d, min_d),
          RDiv(abs_d, RMul(min_d, pow_d)), min_d, pow_d>>, abort)

\* the values loaded: min_d is 1 unless positive, and swap exchanges lhs_d
\* and rhs_d (the exchange through tmp that line 701 spells out)
testNum_swap(d, c, p1, p2, lhs_d, rhs_d, min_d, abort) ==
  testNum_errors(d, c, p1, p2,
    IF "swap" \in c.cmd THEN rhs_d ELSE lhs_d,
    IF "swap" \in c.cmd THEN lhs_d ELSE rhs_d,
    reg_getval(d.reg, d.reg_n, c.scl_reg, c.scl),
    reg_getval(d.reg, d.reg_n, c.off_reg, c.off),
    IF RGt(min_d, Zero) THEN min_d ELSE One,
    pow10(-imax(p1.n, p2.n)), abort)

\* load/interpret numbers: sl and sr are what strtod made of the two
\* numbers; either assertion on its end pointer may fail
testNum_load(d, c, p1, p2, sl, sr) ==
  testNum_swap(d, c, p1, p2,
    reg_getval(d.reg, d.reg_n, c.lhs_reg, IF "lhs" \in c.cmd THEN c.lhs ELSE sl.val),
    reg_getval(d.reg, d.reg_n, c.rhs_reg, IF "rhs" \in c.cmd THEN c.rhs ELSE sr.val),
    fmin(fabs(reg_getval(d.reg, d.reg_n, c.lhs_reg,
                         IF "lhs" \in c.cmd THEN c.lhs ELSE sl.val)),
         fabs(reg_getval(d.reg, d.reg_n, c.rhs_reg,
                         IF "rhs" \in c.cmd THEN c.rhs ELSE sr.val))),
    ("lhs" \notin c.cmd /\ sl.end # d.lhs_i + p1.len)
      \/ ("rhs" \notin c.cmd /\ sr.end # d.rhs_i + p2.len))

\* missing numbers (no eval)
testNum_parsed(d, c, p1, p2) ==
  IF p1.len = 0 \/ p2.len = 0
  THEN testNum_quit(d, c, p1, p2,
         IF {"ign", "istr"} \subseteq c.cmd THEN {} ELSE {"ign"},
         <<Zero, Zero, Zero, Zero, Zero, Zero, Zero, Zero, Zero>>, FALSE)
  ELSE testNum_load(d, c, p1, p2, strtod(p1.buf, d.lhs_i), strtod(p2.buf, d.rhs_i))

\* ndiff_testNum(dif, c): the new struct, the axes returned, and whether
\* one of the two assertions on strtod's end pointer fails
ndiff_testNum(d, c) ==
  testNum_parsed(d, c, parse_number(d.lhs_b, d.lhs_i), parse_number(d.rhs_b, d.rhs_i))

----------------------------------------------------------------------------
(* Streams: the bytes of the file, those still to read, and the           *)
(* end-of-file indicator                                                   *)

Stream(data) == [file |-> data, data |-> data, eof |-> FALSE]

feof(f) == f.eof

\* the bytes of data before its first newline are its first LineLen(data)
LineLen(data) ==
  LET S == {i \in 1..Len(data) : data[i] = NL}
  IN  IF S = {} THEN Len(data) ELSE (CHOOSE i \in S : \A j \in S : i <= j) - 1

\* readLine(f, buf, n, &len) of utils.h: stores at most n-1 bytes up to a
\* newline (consumed, not stored) or the end of the file, and returns the
\* last byte read (c when none was); a full buffer stops the reading before
\* the next byte is taken from the stream
readLine(f, n, text, c) ==
  LET k    == LineLen(f.data)
      room == imax(n - 1 - Len(text), 0)
  IN  IF k >= room
      THEN [f    |-> [f EXCEPT !.data = SubSeq(f.data, room + 1, Len(f.data))],
            text |-> text \o SubSeq(f.data, 1, room),
            c    |-> IF room = 0 THEN c ELSE f.data[room]]
      ELSE IF k = Len(f.data)
      THEN [f |-> [f EXCEPT !.data = <<>>, !.eof = TRUE],
            text |-> text \o f.data, c |-> EOF]
      ELSE [f |-> [f EXCEPT !.data = SubSeq(f.data, k + 2, Len(f.data))],
            text |-> text \o SubSeq(f.data, 1, k), c |-> NL]

\* skipLine(f, &len) of utils.h: consumes bytes up to a newline or the end
\* of the file and returns the last byte read
RECURSIVE skipLine(_)
skipLine(f) ==
  IF f.data = <<>> THEN [f |-> [f EXCEPT !.eof = TRUE], c |-> EOF]
  ELSE IF Head(f.data) = NL THEN [f |-> [f EXCEPT !.data = Tail(f.data)], c |-> NL]
  ELSE skipLine([f EXCEPT !.data = Tail(f.data)])

\* the result of a line operation
EofOr(c1, c2) == IF c1 = EOF \/ c2 = EOF THEN EOF ELSE "OK"

----------------------------------------------------------------------------
(* Construction and line operations *)

min_alloc == 65536
min_regs  == 99

ndiff_reset_buf(d) ==
  [d EXCEPT !.lhs_i = 0, !.rhs_i = 0, !.lhs_b = <<>>, !.rhs_b = <<>>]

ndiff_grow(d, n) == IF n > d.buf_n THEN [d EXCEPT !.buf_n = n] ELSE d

\* ndiff_alloc(lhs_f, rhs_f, cxt, 0, 0) followed by ndiff_option; the
\* context is the set of the rules its lookups may return
ndiff_alloc(lhs_f, rhs_f, cxt, max_i, blank) ==
  [lhs_f |-> lhs_f, rhs_f |-> rhs_f, cxt |-> cxt, row_i |-> 0, col_i |-> 0,
   reg |-> [i \in 1..min_regs |-> Zero], reg_n |-> min_regs,
   blank |-> blank, check |-> FALSE, cnt_i |-> 0, max_i |-> max_i,
   num_i |-> 0, lhs_i |-> 0, rhs_i |-> 0, buf_n |-> min_alloc,
   lhs_b |-> <<>>, rhs_b |-> <<>>]

\* the upper bound of the register count, of register.h: the model
\* allocates the least count, which every bound admits
REG_MAX == min_regs

\* ndiff_teardown: the buffers and the registers are freed and the struct
\* is assigned a literal naming the streams, blank, check and the context
ndiff_teardown(d) ==
  [d EXCEPT !.row_i = 0, !.col_i = 0, !.cnt_i = 0, !.max_i = 0, !.num_i = 0,
            !.lhs_i = 0, !.rhs_i = 0, !.buf_n = 0, !.reg_n = 0,
            !.reg = <<>>, !.lhs_b = <<>>, !.rhs_b = <<>>]

\* ndiff_setup: fresh buffers and registers, and the struct assigned a
\* literal naming the streams, blank, check, max_i and the context
ndiff_setup(d, n, r) ==
  [d EXCEPT !.row_i = 0, !.col_i = 0, !.cnt_i = 0, !.num_i = 0,
            !.lhs_i = 0, !.rhs_i = 0, !.buf_n = imax(n, min_alloc),
            !.reg_n = imin(imax(r, min_regs), REG_MAX),
            !.reg = [i \in 1..imin(imax(r, min_regs), REG_MAX) |-> Zero],
            !.lhs_b = <<>>, !.rhs_b = <<>>]

ndiff_clear(d) == ndiff_setup(ndiff_teardown(d), 0, d.reg_n)

\* ndiff_option(dif, keep_, blank_, check_): a null pointer is <<>>, a
\* pointer to v is <<v>>; abort tells that ensure(max_i > 0) failed
ndiff_option(d, keep, blank, check) ==
  [dif |-> [d EXCEPT !.max_i = IF keep  # <<>> THEN keep[1]  ELSE @,
                     !.blank = IF blank # <<>> THEN blank[1] ELSE @,
                     !.check = IF check # <<>> THEN check[1] ELSE @],
   abort |-> ~((IF keep # <<>> THEN keep[1] ELSE d.max_i) > 0)]

ndiff_skipLine(d) ==
  LET d0 == ndiff_reset_buf(d)
      r1 == skipLine(d0.lhs_f)
      r2 == skipLine(d0.rhs_f)
  IN  [dif |-> [d0 EXCEPT !.lhs_f = r1.f, !.rhs_f = r2.f,
                          !.col_i = 0, !.row_i = d.row_i + 1],
       ret |-> EofOr(r1.c, r2.c)]

ndiff_fillLine(d, lhs_b, rhs_b) ==
  LET d0 == ndiff_grow(ndiff_reset_buf(d),
                       imax(strlen(lhs_b) + 1, strlen(rhs_b) + 1))
  IN  [dif |-> [d0 EXCEPT !.lhs_b = lhs_b, !.rhs_b = rhs_b,
                          !.col_i = 0, !.row_i = d.row_i + 1],
       ret |-> 0]

\* the while (1) loop of ndiff_readLine: both sides read, the buffers
\* doubled, until a newline or the end of a file is seen on either side
RECURSIVE readLine_loop(_, _, _)
readLine_loop(d, c1, c2) ==
  LET r1 == readLine(d.lhs_f, d.buf_n - Len(d.lhs_b), <<>>, NUL)
      r2 == readLine(d.rhs_f, d.buf_n - Len(d.rhs_b), <<>>, NUL)
      d1 == [d EXCEPT !.lhs_f = r1.f, !.rhs_f = r2.f,
                      !.lhs_b = d.lhs_b \o r1.text, !.rhs_b = d.rhs_b \o r2.text]
  IN  IF r1.c \in {NL, EOF} \/ r2.c \in {NL, EOF}
      THEN [dif |-> d1, c1 |-> r1.c, c2 |-> r2.c]
      ELSE readLine_loop(ndiff_grow(d1, 2 * d1.buf_n), r1.c, r2.c)

ndiff_readLine(d) ==
  LET r == readLine_loop(ndiff_reset_buf(d), NUL, NUL)
  IN  [dif |-> [r.dif EXCEPT !.col_i = 0, !.row_i = d.row_i + 1],
       ret |-> EofOr(r.c1, r.c2)]

\* strstr(b, tag) # NULL
RECURSIVE strstrFrom(_, _, _)
strstrFrom(b, tag, k) ==
  IF k + Len(tag) > Len(b) THEN FALSE
  ELSE IF SubSeq(b, k + 1, k + Len(tag)) = tag THEN TRUE
  ELSE strstrFrom(b, tag, k + 1)

strstr(b, tag) == strstrFrom(b, tag, 0)

\* the inner while (1) of ndiff_gotoLine and ndiff_gotoNum: one whole line
\* of one stream, the capacity doubled while the line does not fit
RECURSIVE readWhole(_, _, _)
readWhole(f, text, buf_n) ==
  LET r == readLine(f, buf_n - Len(text), <<>>, NUL)
  IN  IF r.c \in {NL, EOF}
      THEN [f |-> r.f, text |-> text \o r.text, c |-> r.c, buf_n |-> buf_n]
      ELSE readWhole(r.f, text \o r.text, 2 * buf_n)

\* one side of ndiff_gotoLine: lines are read until one holds the tag or
\* the end of the file was seen; r is the line read last, i counts the lines
RECURSIVE gotoLine_side(_, _, _, _)
\* gotoLine_side leaving the line read last in the buffer at the end of the
\* file
gotoLine_side_last(tag, r, found, i) ==
  IF r.c = EOF \/ found
  THEN [f |-> r.f, text |-> r.text, c |-> r.c, i |-> i, buf_n |-> r.buf_n]
  ELSE gotoLine_side(tag, readWhole(r.f, <<>>, r.buf_n),
                     strstr(readWhole(r.f, <<>>, r.buf_n).text, tag), i + 1)

gotoLine_side(tag, r, found, i) ==
  IF r.c = EOF \/ found
  THEN [f |-> r.f, text |-> IF found THEN r.text ELSE <<>>, c |-> r.c, i |-> i,
        buf_n |-> r.buf_n]
  ELSE gotoLine_side(tag, readWhole(r.f, <<>>, r.buf_n),
                     strstr(readWhole(r.f, <<>>, r.buf_n).text, tag), i + 1)

\* nothing read yet from f
gotoLine_start(f, buf_n) == [f |-> f, text |-> <<>>, c |-> NUL, buf_n |-> buf_n]

\* gotoLine_done adding the lines read on the rhs side
gotoLine_done_rhs(d, l, r) ==
  [dif |-> [d EXCEPT !.lhs_f = l.f, !.rhs_f = r.f, !.lhs_i = 0, !.rhs_i = 0,
                     !.lhs_b = l.text, !.rhs_b = r.text, !.buf_n = r.buf_n,
                     !.col_i = 0, !.row_i = d.row_i + r.i],
   ret |-> EofOr(l.c, r.c)]

\* the lines found on the two sides are loaded
gotoLine_done(d, l, r) ==
  [dif |-> [d EXCEPT !.lhs_f = l.f, !.rhs_f = r.f, !.lhs_i = 0, !.rhs_i = 0,
                     !.lhs_b = l.text, !.rhs_b = r.text, !.buf_n = r.buf_n,
                     !.col_i = 0, !.row_i = d.row_i + imin(l.i, r.i)],
   ret |-> EofOr(l.c, r.c)]

\* the rhs side, read with the capacity the lhs side left
gotoLine_rhs(d, c, l) ==
  gotoLine_done(d, l, gotoLine_side(c.tag, gotoLine_start(d.rhs_f, l.buf_n), FALSE, 0))

ndiff_gotoLine(d, c) ==
  gotoLine_rhs(d, c, gotoLine_side(c.tag, gotoLine_start(d.lhs_f, d.buf_n), FALSE, 0))

----------------------------------------------------------------------------
(* ndiff_gotoNum *)

DigitChar(k) ==
  CASE k = 0 -> "0" [] k = 1 -> "1" [] k = 2 -> "2" [] k = 3 -> "3"
    [] k = 4 -> "4" [] k = 5 -> "5" [] k = 6 -> "6" [] k = 7 -> "7"
    [] k = 8 -> "8" [] k = 9 -> "9"

RECURSIVE IntDigits(_)
IntDigits(k) ==
  IF k < 10 THEN <<DigitChar(k)>>
  ELSE Append(IntDigits(k \div 10), DigitChar(k % 10))

\* the decimals of num/den < 1, to the given number of significant digits
RECURSIVE FracDigits(_, _, _, _)
FracDigits(num, den, sig, started) ==
  IF num = 0 \/ sig = 0 THEN <<>>
  ELSE LET dg == (10 * num) \div den
           st == started \/ dg # 0
       IN  <<DigitChar(dg)>>
           \o FracDigits((10 * num) % den, den, IF st THEN sig - 1 ELSE sig, st)

RECURSIVE StripZeros(_)
StripZeros(s) ==
  IF s # <<>> /\ s[Len(s)] = "0" THEN StripZeros(SubSeq(s, 1, Len(s) - 1)) ELSE s

\* sprintf(tag, "%.17g", x) for the values printed in fixed notation
FormatG(x) ==
  LET a  == Abs(x.n)
      ip == IntDigits(a \div x.d)
      sg == IF a \div x.d = 0 THEN 17 ELSE imax(17 - Len(ip), 0)
      fr == StripZeros(FracDigits(a % x.d, x.d, sg, a \div x.d # 0))
  IN  (IF x.n < 0 THEN <<"-">> ELSE <<>>) \o ip
      \o (IF fr = <<>> THEN <<>> ELSE <<".">> \o fr)

\* The two passes of ndiff_gotoNum.  lhs is TRUE in the lhs pass (the tag
\* is in rhs_b and rhs_i restarts at 0) and FALSE in the rhs pass.

\* dif->lhs_i += parse_number(dif->lhs_b + dif->lhs_i, 0, 0, 0, 0), or the
\* same on the rhs side
gotoNum_skip(d, lhs) ==
  IF lhs
  THEN [d EXCEPT !.lhs_b = parse_number(d.lhs_b, d.lhs_i).buf,
                 !.lhs_i = @ + parse_number(d.lhs_b, d.lhs_i).len]
  ELSE [d EXCEPT !.rhs_b = parse_number(d.rhs_b, d.rhs_i).buf,
                 !.rhs_i = @ + parse_number(d.rhs_b, d.rhs_i).len]

RECURSIVE gotoNum_for(_, _, _, _)
RECURSIVE gotoNum_col(_, _, _, _)
RECURSIVE gotoNum_test(_, _, _, _)

\* the body of the for loop after ndiff_testNum returned t
gotoNum_test(c, lhs, fuel, t) ==
  IF t.abort
  THEN [dif |-> t.dif, found |-> FALSE, hang |-> FALSE, abort |-> TRUE]
  ELSE IF t.ret = {}
  THEN [dif |-> t.dif, found |-> TRUE, hang |-> FALSE, abort |-> FALSE]
  ELSE gotoNum_for(t.dif, c, lhs, fuel - 1)

\* the for loop after ndiff_nextNum returned n
gotoNum_col(c, lhs, fuel, n) ==
  IF n.hang
  THEN [dif |-> n.dif, found |-> FALSE, hang |-> TRUE, abort |-> FALSE]
  ELSE IF n.ret = 0
  THEN [dif |-> n.dif, found |-> FALSE, hang |-> FALSE, abort |-> FALSE]
  ELSE IF slice_isElem(c.col, n.ret)
  THEN gotoNum_test(c, lhs, fuel, ndiff_testNum(n.dif, c))
  ELSE gotoNum_for(gotoNum_skip(n.dif, lhs), c, lhs, fuel - 1)

\* the for loop over the numbers of the line just read.  fuel bounds the
\* iterations: each one that returns moves the scanned cursor forward, so
\* running out means the loop never ends.
gotoNum_for(d, c, lhs, fuel) ==
  IF fuel = 0
  THEN [dif |-> d, found |-> FALSE, hang |-> TRUE, abort |-> FALSE]
  ELSE gotoNum_col(c, lhs, fuel,
         ndiff_nextNum(IF lhs THEN [d EXCEPT !.rhs_i = 0]
                              ELSE [d EXCEPT !.lhs_i = 0], c))

RECURSIVE gotoNum_side(_, _, _, _, _)
RECURSIVE gotoNum_line(_, _, _, _, _)
RECURSIVE gotoNum_next(_, _, _, _, _)

\* after the for loop returned s on the line that ended with c1
gotoNum_next(c, lhs, c1, i, s) ==
  IF s.hang \/ s.abort \/ s.found
  THEN [dif |-> s.dif, c |-> c1, i |-> i, hang |-> s.hang, abort |-> s.abort]
  ELSE gotoNum_side(s.dif, c, lhs, c1, i)

\* the line r was read into the scanned side of d
gotoNum_line(d, c, lhs, i, r) ==
  gotoNum_next(c, lhs, r.c, i + 1,
    gotoNum_for(IF lhs THEN [d EXCEPT !.lhs_f = r.f, !.lhs_b = r.text,
                                      !.buf_n = r.buf_n]
                       ELSE [d EXCEPT !.rhs_f = r.f, !.rhs_b = r.text,
                                      !.buf_n = r.buf_n],
                c, lhs, Len(r.text) + 2))

\* one pass of ndiff_gotoNum over one stream: lines are read until the for
\* loop finds the number or the end of the file was seen
gotoNum_side(d, c, lhs, c1, i) ==
  IF c1 = EOF
  THEN [dif |-> IF lhs THEN [d EXCEPT !.lhs_i = 0, !.lhs_b = <<>>]
                       ELSE [d EXCEPT !.rhs_i = 0, !.rhs_b = <<>>],
        c |-> c1, i |-> i, hang |-> FALSE, abort |-> FALSE]
  ELSE gotoNum_line(IF lhs THEN [d EXCEPT !.lhs_i = 0, !.lhs_b = <<>>]
                           ELSE [d EXCEPT !.rhs_i = 0, !.rhs_b = <<>>],
                    c, lhs, i,
                    readWhole(IF lhs THEN d.lhs_f ELSE d.rhs_f, <<>>, d.buf_n))

\* rhs_done: the lhs line is put back and the cursors and counters are set
gotoNum_done(d, l, r) ==
  IF r.hang \/ r.abort
  THEN [dif |-> r.dif, ret |-> "OK", hang |-> r.hang, abort |-> r.abort]
  ELSE [dif |-> [r.dif EXCEPT !.lhs_b = l.dif.lhs_b, !.lhs_i = 0, !.rhs_i = 0,
                              !.col_i = 0, !.row_i = d.row_i + imin(l.i, r.i)],
        ret |-> EofOr(l.c, r.c), hang |-> FALSE, abort |-> FALSE]

\* lhs_done: the rhs pass, with the tag in lhs_b and swap commanded
gotoNum_rhs(d, c, l) ==
  IF l.hang \/ l.abort
  THEN [dif |-> l.dif, ret |-> "OK", hang |-> l.hang, abort |-> l.abort]
  ELSE gotoNum_done(d, l,
         gotoNum_side([l.dif EXCEPT !.lhs_b = c.tag],
                      [c EXCEPT !.cmd = @ \cup {"swap"}], FALSE, NUL, 0))

\* the search with the rule _c, whose tag is set
gotoNum_lhs(d, c) ==
  IF "equ" \in c.cmd /\ slice_isFull(c.col)
  THEN [dif |-> ndiff_gotoLine(d, c).dif, ret |-> ndiff_gotoLine(d, c).ret,
        hang |-> FALSE, abort |-> FALSE]
  ELSE gotoNum_rhs(d, c, gotoNum_side([d EXCEPT !.rhs_b = c.tag], c, TRUE, NUL, 0))

\* ndiff_gotoNum(dif, c): the new struct, the result, and whether the call
\* never returns or stops on a failed assertion
ndiff_gotoNum(d, c) ==
  gotoNum_lhs(d,
    IF c.gto_reg # 0
    THEN [c EXCEPT !.tag = FormatG(reg_getval(d.reg, d.reg_n, c.gto_reg, Zero))]
    ELSE c)

----------------------------------------------------------------------------
(* Inputs *)

MaxRow == 1
MaxCnt == 2
MaxNum == 3

L_a1b   == <<"a", " ", "1", " ", "b">>
L_a2b   == <<"a", " ", "2", " ", "b">>
L_a3b   == <<"a", " ", "3", " ", "b">>
L_idfoo == <<"i", "d", "=", "f", "o", "o", " ", "3", ".", "1">>
L_idbar == <<"i", "d", "=", "b", "a", "r", " ", "3", ".", "1">>
L_id1   == <<"i", "d", "=", "1">>
L_id2   == <<"i", "d", "=", "2">>
L_vD    == <<"v", "=", "1", ".", "0", "D", "+", "0", "3">>
L_v1000 == <<"v", "=", "1", "0", "0", "0">>
L_1D3   == <<"1", "D", "3">>
L_1e3   == <<"1", "e", "3">>
L_dot1  == <<".", "1">>
L_eq1   == <<"=", "1">>
L_1x2   == <<"1", " ", "x", " ", "2">>
L_1y2   == <<"1", " ", "y", " ", "2">>
L_x1a   == <<"x", "1", "a">>
L_x2b   == <<"x", "2", "b">>
L_adot5 == <<"a", ".", "5">>
L_ab    == <<"a", "b">>
L_a_b   == <<"a", " ", " ", "b">>
L_empty == <<>>
L_10    == <<"1", "0">>
L_12    == <<"1", "2">>
L_0x1   == <<"0", "x", "1">>

\* the pairs of lines ndiff_fillLine is called with
LinePairs ==
  {<<L_a1b, L_a2b>>, <<L_a1b, L_a1b>>, <<L_a1b, L_a3b>>, <<L_idfoo, L_idbar>>,
   <<L_id1, L_id2>>, <<L_vD, L_v1000>>, <<L_1D3, L_1e3>>, <<L_10, L_12>>,
   <<L_1D3, L_1D3>>, <<L_dot1, L_eq1>>, <<L_1x2, L_1y2>>, <<L_x1a, L_x2b>>,
   <<L_adot5, L_adot5>>, <<L_ab, L_ab>>, <<L_ab, L_a_b>>, <<L_ab, L_empty>>,
   <<L_empty, L_empty>>, <<L_a2b, L_a1b>>, <<L_0x1, L_0x1>>}

T_id == <<"i", "d", "=">>
T_x  == <<"x">>
T_a  == <<"a">>
T_2  == <<"2">>

Half == Rat(1, 2)

\* an axis rule: the commands, and the bound of every axis with its
\* lower bound minus the bound
Axis(cmd, b) ==
  [Rule(cmd, <<>>) EXCEPT !.abs = b, !._abs = RNeg(b), !.rel = b, !._rel = RNeg(b),
                          !.dig = b, !._dig = RNeg(b)]

C_abs     == Axis({"abs"}, Half)
C_save    == Axis({"abs", "save"}, Half)
C_nofail  == Axis({"abs", "nofail"}, Half)
C_rel     == Axis({"rel"}, Half)
C_dig     == Axis({"dig"}, Half)
C_any     == [Axis({"any", "abs", "rel"}, Half) EXCEPT !.abs = One, !._abs = RNeg(One)]
C_equ     == Rule({"equ"}, <<>>)
C_ign     == Rule({"ign"}, <<>>)
C_ignistr == Rule({"ign", "istr"}, <<>>)
C_istr    == Axis({"abs", "istr"}, Half)
C_omit_id == [Axis({"abs", "omit"}, Half) EXCEPT !.tag = T_id]
C_omit_x  == [Axis({"abs", "omit"}, Half) EXCEPT !.tag = T_x]
C_scl     == [Axis({"abs", "rel"}, Half) EXCEPT !.scl = R(3)]
C_off     == [Axis({"abs"}, Half) EXCEPT !.off = One]
C_lhs     == [Axis({"abs", "lhs"}, Half) EXCEPT !.lhs = R(5)]
C_reg     == [Axis({"abs"}, Half) EXCEPT !.abs_reg = 1]
C_lo      == [Axis({"abs"}, One) EXCEPT !._abs = Half]
C_op      == [Axis({"abs"}, Half) EXCEPT
                 !.ops = <<[dst |-> 10, src |-> 1, src2 |-> 9, op |-> "+"]>>]
C_opsave  == [C_op EXCEPT !.cmd = {"abs", "save"}]
C_skip    == Rule({"skip"}, <<>>)
C_sgg     == Axis({"abs", "sgg"}, Half)
C_goto    == Rule({"goto"}, T_a)
C_goto2   == Rule({"goto"}, T_x)
C_gonum   == [Axis({"gonum", "abs"}, Half) EXCEPT !.tag = T_2,
                 !.col = [full |-> FALSE, elems |-> {1}]]
C_gonumeq == Rule({"gonum", "equ"}, T_a)

\* the rules ndiff_nextNum tells apart: istr, omit with its tag, nofail
ScanRules == {C_abs, C_nofail, C_istr, C_omit_id, C_omit_x}

\* the rules the client calls ndiff_testNum with
TestRules == {C_abs, C_save, C_nofail, C_any, C_equ, C_ign, C_ignistr,
              C_omit_id, C_op, C_opsave}

GotoRules  == {C_goto, C_goto2}
GonumRules == {C_gonum, C_gonumeq}

\* a file: lines, each ended by a newline
RECURSIVE FileOf(_)
FileOf(ls) ==
  IF ls = <<>> THEN <<>> ELSE Head(ls) \o <<NL>> \o FileOf(Tail(ls))

Files == {FileOf(<<L_a1b, L_ab>>), L_a2b, FileOf(<<L_1x2, L_a2b>>)}

----------------------------------------------------------------------------
(* The client calls the public operations in any order *)

NoCall == [op |-> "alloc", c |-> C_abs, ret |-> 0, axes |-> {}, eof |-> FALSE,
           diff |-> FALSE, lhs_i |-> 0, rhs_i |-> 0, log |-> <<>>]

\* a call that returned the column ret, or nothing
Call(op, c, ret, diff) ==
  [op |-> op, c |-> c, ret |-> ret, axes |-> {}, eof |-> FALSE, diff |-> diff,
   lhs_i |-> dif.lhs_i, rhs_i |-> dif.rhs_i, log |-> <<>>]

\* a call that returned the last byte read, ret
CallLine(op, c, ret) == [Call(op, c, 0, FALSE) EXCEPT !.eof = (ret = EOF)]

\* a ndiff_testNum call that returned the axes ret
CallTest(c, ret) == [Call("testNum", c, 0, FALSE) EXCEPT !.axes = ret]

NoLoc == [row |-> 0, col |-> 0, ret |-> {}, c |-> C_abs]

Init ==
  /\ \E rf \in Files, blank \in BOOLEAN :
       dif = ndiff_alloc(Stream(FileOf(<<L_a1b, L_ab>>)), Stream(rf), {}, 1, blank)
  /\ pc = "api"
  /\ loc = NoLoc
  /\ out = [lhs |-> <<>>, rhs |-> <<>>]
  /\ last = NoCall

\* the cursors are inside their lines: the bytes a scan reads are the line's
CursorsValid(d) == d.lhs_i <= strlen(d.lhs_b) /\ d.rhs_i <= strlen(d.rhs_b)

FillLine ==
  /\ pc = "api" /\ dif.row_i < MaxRow
  /\ \E p \in LinePairs :
       /\ dif' = ndiff_fillLine(dif, p[1], p[2]).dif
       /\ last' = Call("fillLine", C_abs, 0, FALSE)
  /\ UNCHANGED <<pc, loc, out>>

ReadLine ==
  /\ pc = "api" /\ dif.row_i < MaxRow
  /\ \E r \in {ndiff_readLine(dif)} :
       /\ dif' = r.dif
       /\ last' = CallLine("readLine", C_abs, r.ret)
  /\ UNCHANGED <<pc, loc, out>>

SkipLine ==
  /\ pc = "api" /\ dif.row_i < MaxRow
  /\ \E r \in {ndiff_skipLine(dif)} :
       /\ dif' = r.dif
       /\ last' = CallLine("skipLine", C_abs, r.ret)
  /\ UNCHANGED <<pc, loc, out>>

GotoLine ==
  /\ pc = "api" /\ dif.row_i < MaxRow
  /\ \E c \in GotoRules : \E r \in {ndiff_gotoLine(dif, c)} :
       /\ dif' = r.dif
       /\ last' = CallLine("gotoLine", c, r.ret)
  /\ UNCHANGED <<pc, loc, out>>

GotoNum ==
  /\ pc = "api" /\ dif.row_i < MaxRow
  /\ \E c \in GonumRules : \E r \in {ndiff_gotoNum(dif, c)} :
       /\ dif' = r.dif
       /\ pc' = IF r.hang THEN "hang" ELSE IF r.abort THEN "abort" ELSE pc
       /\ last' = CallLine("gotoNum", c, r.ret)
  /\ UNCHANGED <<loc, out>>

NextNum ==
  /\ pc = "api" /\ CursorsValid(dif) /\ dif.cnt_i < MaxCnt /\ dif.num_i < MaxNum
  /\ \E c \in ScanRules : \E r \in {ndiff_nextNum(dif, c)} :
       /\ dif' = r.dif
       /\ pc' = IF r.hang THEN "hang" ELSE pc
       /\ last' = [Call("nextNum", c, r.ret, r.diff) EXCEPT !.log = r.log]
  /\ UNCHANGED <<loc, out>>

TestNum ==
  /\ pc = "api" /\ CursorsValid(dif) /\ dif.cnt_i < MaxCnt
  /\ \E c \in TestRules : \E r \in {ndiff_testNum(dif, c)} :
       /\ dif' = r.dif
       /\ pc' = IF r.abort THEN "abort" ELSE pc
       /\ last' = [CallTest(c, r.ret) EXCEPT !.log = r.log]
  /\ UNCHANGED <<loc, out>>

Next ==
  \/ FillLine
  \/ ReadLine
  \/ SkipLine
  \/ GotoLine
  \/ GotoNum
  \/ NextNum
  \/ TestNum

Spec == Init /\ [][Next]_vars

----------------------------------------------------------------------------
(* ndiff_loop, one action for each stretch of it between two calls *)

\* skipSpace(f, 0) of utils.h: consumes the white space at the head of f
RECURSIVE skipSpace(_)
skipSpace(f) ==
  IF f.data = <<>> THEN [f EXCEPT !.eof = TRUE]
  ELSE IF isspace(Head(f.data)) THEN skipSpace([f EXCEPT !.data = Tail(f.data)])
  ELSE f

ndiff_feof(d, both) ==
  IF both THEN feof(d.lhs_f) /\ feof(d.rhs_f) ELSE feof(d.lhs_f) \/ feof(d.rhs_f)

\* ndiff_outLine(dif, lhs_fp, rhs_fp) with both streams given
ndiff_outLine(d, o) ==
  [lhs |-> Append(o.lhs, d.lhs_b), rhs |-> Append(o.rhs, d.rhs_b)]

\* context_getInc(cxt, row, col): some rule of the context
getInc(d) == d.cxt

LF_ab     == FileOf(<<L_ab, L_a_b>>)
LF_a1b    == FileOf(<<L_a1b, L_ab>>)
LF_a2b    == FileOf(<<L_a2b, L_ab>>)
LF_1x2    == FileOf(<<L_1x2>>)
LF_1y2    == FileOf(<<L_1y2>>)
LF_id     == FileOf(<<L_idfoo, L_id1>>)
LF_adot5  == FileOf(<<L_adot5>>)
LF_1D3    == L_1D3
LF_txt    == FileOf(<<L_empty, L_a_b>>) \o L_ab

LF_x_a2b  == FileOf(<<L_1x2, L_a2b>>)

LoopFiles == {LF_ab, LF_a1b, LF_a2b, LF_1x2, LF_1y2, LF_id, LF_adot5, LF_1D3,
              LF_txt,
              LF_x_a2b}

PlainRules == {C_abs, C_save, C_nofail, C_rel, C_dig, C_any, C_equ, C_ign,
               C_ignistr, C_istr, C_omit_id, C_scl, C_skip, C_sgg, C_goto}

Contexts == {PlainRules, {C_abs, C_off}, {C_rel, C_lhs}, {C_save, C_reg},
             {C_lo}, {C_abs, C_gonum}, {C_equ, C_gonumeq}}

InitLoop ==
  /\ \E lf \in LoopFiles, rf \in LoopFiles, cxt \in Contexts, blank \in BOOLEAN :
       dif = ndiff_alloc(Stream(lf), Stream(rf), cxt, 1, blank)
  /\ pc = "loop"
  /\ loc = NoLoc
  /\ out = [lhs |-> <<>>, rhs |-> <<>>]
  /\ last = NoCall

\* while (!ndiff_feof(dif, 0)) fails: the loop is left
LoopDone ==
  /\ pc = "loop" /\ ndiff_feof(dif, FALSE)
  /\ dif' = IF dif.blank
            THEN [dif EXCEPT !.lhs_f = skipSpace(@), !.rhs_f = skipSpace(@)]
            ELSE dif
  /\ pc' = "done"
  /\ last' = Call("return", loc.c, 0, FALSE)
  /\ UNCHANGED <<loc, out>>

\* a row whose rule commands skip
LoopSkip ==
  /\ pc = "loop" /\ ~ndiff_feof(dif, FALSE)
  /\ \E c \in getInc(dif) : \E r \in {ndiff_skipLine(dif)} :
       /\ "skip" \in c.cmd
       /\ dif' = r.dif
       /\ loc' = [row |-> loc.row + 1, col |-> 0, ret |-> {}, c |-> c]
       /\ last' = CallLine("skipLine", c, r.ret)
  /\ UNCHANGED <<pc, out>>

\* LoopGoto counting one row, without the refresh from the struct
LoopGotoStale ==
  /\ pc = "loop" /\ ~ndiff_feof(dif, FALSE)
  /\ \E c \in {x \in getInc(dif) : "skip" \notin x.cmd /\ "goto" \in x.cmd} :
     \E r \in {ndiff_gotoLine(dif, c)} :
       /\ dif' = r.dif
       /\ loc' = [row |-> loc.row + 1, col |-> 0, ret |-> {}, c |-> c]
       /\ last' = CallLine("gotoLine", c, r.ret)
  /\ pc' = "cols"
  /\ UNCHANGED out

\* a row whose rule commands goto
LoopGoto ==
  /\ pc = "loop" /\ ~ndiff_feof(dif, FALSE)
  /\ \E c \in {x \in getInc(dif) : "skip" \notin x.cmd /\ "goto" \in x.cmd} :
     \E r \in {ndiff_gotoLine(dif, c)} :
       /\ dif' = r.dif
       /\ loc' = [row |-> r.dif.row_i, col |-> 0, ret |-> {}, c |-> c]
       /\ last' = CallLine("gotoLine", c, r.ret)
  /\ pc' = "cols"
  /\ UNCHANGED out

\* a row whose rule commands gonum
LoopGonum ==
  /\ pc = "loop" /\ ~ndiff_feof(dif, FALSE)
  /\ \E c \in {x \in getInc(dif) : x.cmd \cap {"skip", "goto"} = {}
                                      /\ "gonum" \in x.cmd} :
     \E r \in {ndiff_gotoNum(dif, c)} :
       /\ dif' = r.dif
       /\ loc' = [row |-> r.dif.row_i, col |-> 0, ret |-> {}, c |-> c]
       /\ pc' = IF r.hang THEN "hang" ELSE IF r.abort THEN "abort" ELSE "cols"
       /\ last' = CallLine("gotoNum", c, r.ret)
  /\ UNCHANGED out

\* any other row: the lines are read
LoopRead ==
  /\ pc = "loop" /\ ~ndiff_feof(dif, FALSE)
  /\ \E c \in {x \in getInc(dif) : x.cmd \cap {"skip", "goto", "gonum"} = {}} :
     \E r \in {ndiff_readLine(dif)} :
       /\ dif' = r.dif
       /\ loc' = [row |-> loc.row + 1, col |-> 0, ret |-> {}, c |-> c]
       /\ last' = CallLine("readLine", c, r.ret)
       /\ pc' = IF ndiff_isempty(r.dif) THEN "result" ELSE "cols"
  /\ UNCHANGED out

\* while ((col = ndiff_nextNum(dif, c))) and the lookup of the column's rule
LoopNextNum ==
  /\ pc = "cols"
  /\ \E r \in {ndiff_nextNum(dif, loc.c)} :
       /\ dif' = r.dif
       /\ last' = [Call("nextNum", loc.c, r.ret, r.diff) EXCEPT !.log = r.log]
       /\ IF r.hang THEN pc' = "hang" /\ loc' = loc
          ELSE IF r.ret = 0 THEN pc' = "result" /\ loc' = [loc EXCEPT !.col = 0]
          ELSE \E c \in getInc(dif) :
                 /\ loc' = [loc EXCEPT !.col = r.ret, !.c = c]
                 /\ pc' = IF "sgg" \in c.cmd THEN "result" ELSE "test"
  /\ UNCHANGED out

\* ret |= ndiff_testNum(dif, c)
LoopTestNum ==
  /\ pc = "test"
  /\ \E r \in {ndiff_testNum(dif, loc.c)} :
       /\ dif' = r.dif
       /\ loc' = [loc EXCEPT !.ret = @ \cup r.ret]
       /\ pc' = IF r.abort THEN "abort" ELSE "cols"
       /\ last' = [CallTest(loc.c, r.ret) EXCEPT !.log = r.log]
  /\ UNCHANGED out

\* result: if (!ret) ndiff_outLine(dif, lhs_fp, rhs_fp)
LoopResult ==
  /\ pc = "result"
  /\ out' = IF loc.ret = {} THEN ndiff_outLine(dif, out) ELSE out
  /\ pc' = "loop"
  /\ last' = Call("outLine", loc.c, 0, FALSE)
  /\ UNCHANGED <<dif, loc>>

NextLoop ==
  \/ LoopDone
  \/ LoopSkip
  \/ LoopGoto
  \/ LoopGonum
  \/ LoopRead
  \/ LoopNextNum
  \/ LoopTestNum
  \/ LoopResult

SpecLoop == InitLoop /\ [][NextLoop]_vars

\* the driver has returned, or a call it made never returns
Stopped == pc \in {"done", "hang", "abort"}

\* the driver is scheduled until it stops.  NextLoop is enabled in exactly
\* the states that are not Stopped, so this is WF_vars(NextLoop) written
\* without ENABLED: either the driver stops or it steps again and again
SpecLoopFair == SpecLoop /\ ([]<>Stopped \/ []<><<NextLoop>>_vars)


----------------------------------------------------------------------------
(* The number lexer on its own: parse_number applied to the start of a line *)

MaxLen == 4

LexChars == {"+", "-", ".", "0", "1", "3", "5", "e", "D", "x"}

\* the lines the lexer is applied to
LexStrings == UNION {[1..n -> LexChars] : n \in 0..MaxLen}

\* the outputs of parse_number: the length returned and *d_, *n_, *e_, *f_
NoLex == [len |-> 0, n |-> 0, d |-> 0, e |-> 0, f |-> FALSE]

InitLex ==
  /\ \E s \in LexStrings :
       dif = ndiff_fillLine(ndiff_alloc(Stream(<<>>), Stream(<<>>), {}, 1, FALSE),
                            s, s).dif
  /\ pc = "lex"
  /\ loc = NoLex
  /\ out = [lhs |-> <<>>, rhs |-> <<>>]
  /\ last = NoCall

\* l1 = parse_number(lhs_p, &d1, &n1, &e1, &f1) at the start of the lhs line,
\* which it rewrites in place; the rhs line keeps the bytes as they were given
ParseNumber ==
  /\ pc = "lex"
  /\ \E r \in {parse_number(dif.lhs_b, 0)} :
       /\ dif' = [dif EXCEPT !.lhs_b = r.buf]
       /\ loc' = [len |-> r.len, n |-> r.n, d |-> r.d, e |-> r.e, f |-> r.f]
       /\ last' = Call("parse_number", C_abs, r.len, FALSE)
  /\ pc' = "lexed"
  /\ UNCHANGED out

NextLex == ParseNumber

SpecLex == InitLex /\ [][NextLex]_vars

----------------------------------------------------------------------------
(* The line reader on its own: ndiff_readLine applied until both streams   *)
(* are at their end, on lines shorter and longer than the capacity         *)

\* a line that does not fit the capacity the struct is allocated with
LongLine == [i \in 1..min_alloc |-> "1"]

ReadLines == {<<"1">>, <<"2", "3">>, LongLine}

\* files of up to two lines
ReadFiles == {FileOf(ls) : ls \in UNION {[1..n -> ReadLines] : n \in 0..2}}

InitRead ==
  /\ \E lf \in ReadFiles, rf \in ReadFiles :
       dif = ndiff_alloc(Stream(lf), Stream(rf), {}, 1, FALSE)
  /\ pc = "read"
  /\ loc = NoLoc
  /\ out = [lhs |-> <<>>, rhs |-> <<>>]
  /\ last = NoCall

\* while (!ndiff_feof(dif, 1)) ndiff_readLine(dif);
ReadNext ==
  /\ pc = "read" /\ ~(feof(dif.lhs_f) /\ feof(dif.rhs_f))
  /\ \E r \in {ndiff_readLine(dif)} :
       /\ dif' = r.dif
       /\ last' = CallLine("readLine", C_abs, r.ret)
  /\ UNCHANGED <<pc, loc, out>>

NextRead == ReadNext

SpecRead == InitRead /\ [][NextRead]_vars

----------------------------------------------------------------------------
(* The options and the reset of the struct, among line loads and scans *)

\* the struct as ndiff_alloc leaves it: no option is set yet, max_i is 0
InitClear ==
  /\ \E rf \in {FileOf(<<L_a2b, L_ab>>)} :
       dif = ndiff_alloc(Stream(FileOf(<<L_a1b, L_ab>>)), Stream(rf), {}, 0, FALSE)
  /\ pc = "api"
  /\ loc = NoLoc
  /\ out = [lhs |-> <<>>, rhs |-> <<>>]
  /\ last = NoCall

\* the values the client gives ndiff_option for the cap of the differences
Keeps == {<<>>, <<0>>, <<1>>, <<2>>}

Option ==
  /\ pc = "api"
  /\ \E keep \in Keeps, blank \in {<<>>, <<TRUE>>}, check \in {<<>>, <<TRUE>>} :
     \E r \in {ndiff_option(dif, keep, blank, check)} :
       /\ dif' = r.dif
       /\ pc' = IF r.abort THEN "abort" ELSE pc
       /\ last' = Call("option", C_abs, 0, FALSE)
  /\ UNCHANGED <<loc, out>>

Clear ==
  /\ pc = "api"
  /\ dif' = ndiff_clear(dif)
  /\ last' = Call("clear", C_abs, 0, FALSE)
  /\ UNCHANGED <<pc, loc, out>>

NextClear ==
  \/ FillLine
  \/ NextNum
  \/ TestNum
  \/ Option
  \/ Clear

SpecClear == InitClear /\ [][NextClear]_vars

----------------------------------------------------------------------------
(* The scanner on lines without digits, with blank set and clear *)

MaxBlank == 3

BlankChars == {"a", " ", "\t"}

\* the lines of words and blanks
BlankStrings == UNION {[1..n -> BlankChars] : n \in 0..MaxBlank}

\* the rules without istr the lines are scanned with
BlankRules == {C_abs, C_nofail, C_omit_x}

InitBlank ==
  /\ \E l \in BlankStrings, r \in BlankStrings, blank \in BOOLEAN :
       dif = ndiff_fillLine(ndiff_alloc(Stream(<<>>), Stream(<<>>), {}, 1, blank),
                            l, r).dif
  /\ pc = "scan"
  /\ loc = NoLoc
  /\ out = [lhs |-> <<>>, rhs |-> <<>>]
  /\ last = NoCall

\* ndiff_nextNum(dif, c) on the line pair just loaded
ScanBlank ==
  /\ pc = "scan"
  /\ \E c \in BlankRules : \E r \in {ndiff_nextNum(dif, c)} :
       /\ dif' = r.dif
       /\ pc' = IF r.hang THEN "hang" ELSE "scanned"
       /\ last' = [Call("nextNum", c, r.ret, r.diff) EXCEPT !.log = r.log]
  /\ UNCHANGED <<loc, out>>

NextBlank == ScanBlank

SpecBlank == InitBlank /\ [][NextBlank]_vars

----------------------------------------------------------------------------
(* The column loop of the driver on one line pair: the numbers are scanned *)
(* and tested in turn, as ndiff_loop does between two line loads           *)

MaxScan == 3

ScanChars == {"a", " ", "+", ".", "1"}

\* the lines of words, blanks, signs, dots and digits
ScanStrings == UNION {[1..n -> ScanChars] : n \in 0..MaxScan}

InitScan ==
  /\ \E l \in ScanStrings, r \in ScanStrings, blank \in BOOLEAN :
       dif = ndiff_fillLine(ndiff_alloc(Stream(<<>>), Stream(<<>>), {}, 1, blank),
                            l, r).dif
  /\ pc = "cols"
  /\ loc = NoLoc
  /\ out = [lhs |-> <<>>, rhs |-> <<>>]
  /\ last = NoCall

\* while ((col = ndiff_nextNum(dif, c)))
ScanNum ==
  /\ pc = "cols"
  /\ \E c \in {C_abs, C_istr} : \E r \in {ndiff_nextNum(dif, c)} :
       /\ dif' = r.dif
       /\ pc' = IF r.hang THEN "hang" ELSE IF r.ret = 0 THEN "result" ELSE "test"
       /\ last' = [Call("nextNum", c, r.ret, r.diff) EXCEPT !.log = r.log]
  /\ UNCHANGED <<loc, out>>

\* ret |= ndiff_testNum(dif, c)
ScanTest ==
  /\ pc = "test"
  /\ \E c \in {C_abs, C_istr} : \E r \in {ndiff_testNum(dif, c)} :
       /\ dif' = r.dif
       /\ pc' = IF r.abort THEN "abort" ELSE "cols"
       /\ last' = [CallTest(c, r.ret) EXCEPT !.log = r.log]
  /\ UNCHANGED <<loc, out>>

NextScan ==
  \/ ScanNum
  \/ ScanTest

SpecScan == InitScan /\ [][NextScan]_vars

----------------------------------------------------------------------------
(* Properties.  A step of the client is told by last', the record of the   *)
(* call it made; dif is the struct before the call and dif' after it.      *)

LineOps == {"readLine", "skipLine", "fillLine", "gotoLine", "gotoNum"}

\* the two streams were opened on files of the same bytes
SameFiles == dif.lhs_f.file = dif.rhs_f.file

NoDigit(f) == \A i \in 1..Len(f) : f[i] \notin Digits

\* C1: after every public operation that returned, both cursors are within
\* their lines: lhs_i <= strlen(lhs_b) and rhs_i <= strlen(rhs_b).
C1_CursorsWithinLines == pc = "api" => CursorsValid(dif)

\* C2: when ndiff_nextNum has returned 0 without surfacing a text
\* difference, both cursors are on the terminator of their line.
C2_ExhaustedOnNul ==
  (pc = "api" /\ last.op = "nextNum" /\ last.ret = 0 /\ ~last.diff)
    => ndiff_isempty(dif)

\* C3 as the specification words it: col_i is set to 0 by line loads only,
\* so no ndiff_nextNum or ndiff_testNum call lowers it.
C3_ResetOnlyAtLineLoads ==
  [][last'.op \in {"nextNum", "testNum"} => dif'.col_i >= dif.col_i]_vars

\* C3: every line operation sets col_i to 0, and so does every
\* ndiff_nextNum call that returns 0; a ndiff_nextNum call that returns a
\* column returns col_i raised by exactly 1; ndiff_testNum leaves col_i.
C3_ColumnIndex ==
  [][pc' = "api" =>
       /\ last'.op \in LineOps => dif'.col_i = 0
       /\ last'.op = "nextNum" =>
            /\ last'.ret = dif'.col_i
            /\ dif'.col_i \in {0, dif.col_i + 1}
       /\ last'.op = "testNum" => dif'.col_i = dif.col_i]_vars

\* a number of a line got column 1 after an earlier number of the same line
C3_Witness ==
  pc = "api" /\ last.op = "nextNum" /\ last.ret = 1 /\ dif.num_i = 2
  /\ dif.row_i = 1

\* the files are the same, hold no digit, and no rule commands gonum
C4_Text ==
  SameFiles /\ NoDigit(dif.lhs_f.file) /\ \A c \in dif.cxt : "gonum" \notin c.cmd

C5_Plain(c) ==
  /\ c.cmd \cap {"lhs", "rhs", "gonum"} = {}
  /\ c.off = Zero /\ c.off_reg = 0 /\ c.lhs_reg = 0 /\ c.rhs_reg = 0
  /\ c.abs_reg = 0 /\ c._abs_reg = 0 /\ c.rel_reg = 0 /\ c._rel_reg = 0
  /\ c.dig_reg = 0 /\ c._dig_reg = 0
  /\ ~RLt(c.abs, Zero) /\ ~RGt(c._abs, Zero)
  /\ ~RLt(c.rel, Zero) /\ ~RGt(c._rel, Zero)
  /\ ~RLt(c.dig, Zero) /\ ~RGt(c._dig, Zero)

\* C5 as the specification words it: ndiff_loop on a file and itself has
\* counted no difference when it returns, whatever the rules.
C5_SelfCompareAnyRule == (pc = "done" /\ SameFiles) => dif.cnt_i = 0

\* C5: ndiff_loop on a file and itself never counts a difference when
\* every rule has offset 0, no lhs or rhs override, no register behind a
\* value or a bound, no gonum, and bounds with _B <= 0 <= B.
C5_SelfCompare ==
  (SameFiles /\ \A c \in dif.cxt : C5_Plain(c)) => dif.cnt_i = 0

\* ndiff_loop has returned from such a run in which ndiff_testNum passed a
\* number and wrote register 8 (min_d)
C5_Witness ==
  pc = "done" /\ SameFiles /\ (\A c \in dif.cxt : C5_Plain(c))
  /\ dif.num_i > 0 /\ dif.reg[8] # Zero

\* C6: no ndiff_nextNum call leaves a cursor before the place the call
\* found it at.
C6_PositionMonotone ==
  [][(last'.op = "nextNum" /\ pc' = "api")
       => (dif'.lhs_i >= dif.lhs_i /\ dif'.rhs_i >= dif.rhs_i)]_vars

\* the step is a ndiff_testNum call that returned, with a rule of the
\* commands cmd, on two numbers both of which the lexer accepted
Tested(cmd) ==
  /\ last'.op = "testNum" /\ pc' = "api" /\ last'.c.cmd = cmd
  /\ dif'.lhs_i > dif.lhs_i /\ dif'.rhs_i > dif.rhs_i

\* the two values the call read, their difference and its ratio to the
\* smaller magnitude (1 when that is 0), for a rule of scale 1 and offset 0
Lhs_d == strtod(dif'.lhs_b, dif.lhs_i).val
Rhs_d == strtod(dif'.rhs_b, dif.rhs_i).val
Abs_d == RSub(Lhs_d, Rhs_d)
Rel_d ==
  RDiv(Abs_d, IF RGt(fmin(fabs(Lhs_d), fabs(Rhs_d)), Zero)
              THEN fmin(fabs(Lhs_d), fabs(Rhs_d)) ELSE One)
AbsViolated == Outside(Abs_d, last'.c.abs, last'.c._abs)
RelViolated == Outside(Rel_d, last'.c.rel, last'.c._rel)

Reported == last'.axes # {} /\ dif'.cnt_i = dif.cnt_i + 1
Silent   == last'.axes = {} /\ dif'.cnt_i = dif.cnt_i

\* C7 as the specification words it: with the commands any, abs and rel a
\* difference is reported when rel is violated, whether abs is or not, and
\* none when neither is violated.
C7_AnyReportsOneAxis ==
  [][Tested({"any", "abs", "rel"}) =>
       /\ RelViolated => Reported
       /\ (~RelViolated /\ ~AbsViolated) => Silent]_vars

\* C7: with the commands any, abs and rel ndiff_testNum reports a
\* difference, returning abs and rel, exactly when both are violated; when
\* one of them or none is violated it returns 0 and leaves cnt_i.
C7_AnyNeedsEveryAxis ==
  [][Tested({"any", "abs", "rel"}) =>
       IF AbsViolated /\ RelViolated
       THEN Reported /\ last'.axes = {"abs", "rel"}
       ELSE Silent]_vars

\* 'a 1 b' against 'a 2 b' under abs <= 1 and rel <= 1/2: rel is violated,
\* abs is not, and ndiff_testNum returned 0
C7_Witness ==
  /\ pc = "api" /\ last.op = "testNum" /\ last.c = C_any /\ last.axes = {}
  /\ dif.lhs_b = L_a1b /\ dif.rhs_b = L_a2b /\ last.lhs_i = 2 /\ dif.lhs_i = 3

\* the step is a ndiff_nextNum call with the rule c that returned
Scanned(c) == last'.op = "nextNum" /\ pc' = "api" /\ last'.c = c

\* the bytes the cursors are on after the equal bytes that are no digits
StopL == dif.lhs_i + Lockstep(dif.lhs_b, dif.rhs_b, dif.lhs_i, dif.rhs_i, Digits)
StopR == dif.rhs_i + Lockstep(dif.lhs_b, dif.rhs_b, dif.lhs_i, dif.rhs_i, Digits)

\* those bytes differ, are not both numbers and are no blanks to skip, and
\* the tag precedes them on both sides
TextDiffersBehind(tag) ==
  /\ ~(dif.blank /\ (isblank(At(dif.lhs_b, StopL)) \/ isblank(At(dif.rhs_b, StopR))))
  /\ At(dif.lhs_b, StopL) # At(dif.rhs_b, StopR)
  /\ ~is_number(dif.lhs_b, StopL) \/ ~is_number(dif.rhs_b, StopR)
  /\ StopL >= Len(tag) /\ SubSeq(dif.lhs_b, StopL - Len(tag) + 1, StopL) = tag
  /\ StopR >= Len(tag) /\ SubSeq(dif.rhs_b, StopR - Len(tag) + 1, StopR) = tag

\* C8 as the specification words it: with omit and the tag 'id=' the first
\* scan of 'id=foo 3.1' against 'id=bar 3.1' surfaces and counts no
\* difference.
C8_OmitHidesTextDiff ==
  [][(Scanned(C_omit_id) /\ dif.lhs_b = L_idfoo /\ dif.rhs_b = L_idbar
      /\ dif.lhs_i = 0 /\ dif.rhs_i = 0)
       => (~last'.diff /\ dif'.cnt_i = dif.cnt_i)]_vars

\* C8: with omit, a text difference behind the tag is surfaced and counted
\* all the same, the cursors left behind the differing bytes ('id=foo 3.1'
\* against 'id=bar 3.1' with the tag 'id='); the tag hides what follows it
\* only where the scan met a digit first ('x1a' against 'x2b' with the tag
\* 'x').
C8_TextDiffBeforeOmit ==
  [][/\ \A c \in {C_omit_id, C_omit_x} :
          (Scanned(c) /\ TextDiffersBehind(c.tag))
            => /\ last'.ret = 0 /\ last'.diff
               /\ dif'.cnt_i = dif.cnt_i + 1
               /\ dif'.lhs_i = StopL + 1 /\ dif'.rhs_i = StopR + 1
     /\ (Scanned(C_omit_x) /\ dif.lhs_b = L_x1a /\ dif.rhs_b = L_x2b
         /\ dif.lhs_i = 0 /\ dif.rhs_i = 0)
          => (last'.ret = 0 /\ ~last'.diff /\ dif'.cnt_i = dif.cnt_i)]_vars

\* the first scan of 'id=foo 3.1' against 'id=bar 3.1' with the tag 'id='
\* surfaced the difference of 'f' and 'b'
C8_Witness ==
  /\ pc = "api" /\ last.op = "nextNum" /\ last.c = C_omit_id
  /\ dif.lhs_b = L_idfoo /\ dif.rhs_b = L_idbar /\ last.lhs_i = 0
  /\ last.diff /\ dif.cnt_i = 1 /\ dif.lhs_i = 4 /\ dif.rhs_i = 4

\* the step is a ndiff_testNum call with the rule c that returned, on the
\* numbers 1 and 2 of 'a 1 b' and 'a 2 b'
TestedOneTwo(c) ==
  /\ last'.op = "testNum" /\ pc' = "api" /\ last'.c = c
  /\ dif.lhs_b = L_a1b /\ dif.rhs_b = L_a2b /\ dif.lhs_i = 2 /\ dif.rhs_i = 2

\* C9 as the specification words it: under abs <= 0.5 the difference of 1
\* and 2 is counted and the registers hold R1=1, R2=2, R5=1, R6=0.5.
C9_RegistersOfFailure ==
  [][TestedOneTwo(C_abs) =>
       /\ dif'.cnt_i = dif.cnt_i + 1
       /\ dif'.reg[1] = R(1) /\ dif'.reg[2] = R(2)
       /\ dif'.reg[5] = R(1) /\ dif'.reg[6] = Half]_vars

\* C9: under abs <= 0.5 the difference of 1 and 2 is returned as abs and
\* counted, and the registers stay as they were; with save commanded as
\* well they hold R1=1, R2=2, R5=-1 and R6=-1.
C9_AbsReported ==
  [][/\ TestedOneTwo(C_abs) =>
          /\ last'.axes = {"abs"} /\ dif'.cnt_i = dif.cnt_i + 1
          /\ dif'.reg = dif.reg
     /\ TestedOneTwo(C_save) =>
          /\ last'.axes = {"abs"} /\ dif'.cnt_i = dif.cnt_i + 1
          /\ dif'.reg[1] = R(1) /\ dif'.reg[2] = R(2)
          /\ dif'.reg[5] = R(-1) /\ dif'.reg[6] = R(-1)]_vars

\* 1 and 2 were tested under abs <= 0.5 and the difference was counted
C9_Witness ==
  /\ pc = "api" /\ last.op = "testNum" /\ last.c = C_abs /\ last.axes = {"abs"}
  /\ dif.lhs_b = L_a1b /\ dif.rhs_b = L_a2b /\ last.lhs_i = 2 /\ last.rhs_i = 2
  /\ dif.cnt_i = 1 /\ dif.reg[1] = Zero /\ dif.reg[5] = Zero

\* the two literals a ndiff_testNum call steps over, as the lines spelled
\* them before the call
LhsLiteral == SubSeq(dif.lhs_b, dif.lhs_i + 1, dif'.lhs_i)
RhsLiteral == SubSeq(dif.rhs_b, dif.rhs_i + 1, dif'.rhs_i)

\* a literal with its exponent marker spelled 'e'
Normal(s) == [i \in 1..Len(s) |-> IF s[i] \in ExpMarks THEN "e" ELSE s[i]]

\* C10 as the specification words it: with equ ndiff_testNum returns equ
\* exactly when the two literals as the lines spell them differ, and never
\* another axis.
C10_EquOfInput ==
  [][Tested({"equ"}) =>
       last'.axes = IF LhsLiteral = RhsLiteral THEN {} ELSE {"equ"}]_vars

\* C10: with equ ndiff_testNum returns equ exactly when the two literals
\* differ once the exponent marker of each (e, E, d or D) is spelled 'e',
\* and never another axis.
C10_EquAfterRewrite ==
  [][Tested({"equ"}) =>
       last'.axes = IF Normal(LhsLiteral) = Normal(RhsLiteral) THEN {}
                   ELSE {"equ"}]_vars

\* '1D3' against '1e3' passed equ: the lhs line, which no call was given
\* as '1e3', holds '1e3'
C10_Witness ==
  /\ pc = "api" /\ last.op = "testNum" /\ last.c = C_equ /\ last.axes = {}
  /\ last.lhs_i = 0 /\ dif.lhs_i = 3
  /\ dif.lhs_b = L_1e3 /\ dif.rhs_b = L_1e3
  /\ \A p \in LinePairs : p[1] # L_1e3

\* strtod, applied where the lexer accepts a literal, ends where the
\* literal ends
LexerAgrees(b, p) ==
  parse_number(b, p).len > 0
    => strtod(parse_number(b, p).buf, p).end = p + parse_number(b, p).len

\* C11: where ndiff_nextNum has returned a column, strtod consumes on each
\* side exactly the bytes of the literal the lexer accepts at the cursor, so
\* the two assertions of ndiff_testNum on strtod's end pointer hold.
C11_StrtodConsumesLiteral ==
  (pc = "api" /\ last.op = "nextNum" /\ last.ret > 0)
    => (LexerAgrees(dif.lhs_b, dif.lhs_i) /\ LexerAgrees(dif.rhs_b, dif.rhs_i))

\* the bytes s[from+1 .. to] are digits
AllDigits(s, from, to) == \A k \in (from + 1)..to : s[k] \in Digits

\* s is an exponent: a marker, an optional sign and at least one digit
IsExponent(s) ==
  /\ Len(s) >= 2 /\ s[1] \in ExpMarks
  /\ \E a \in {1, 2} :
       /\ a = 2 => s[2] \in Signs
       /\ Len(s) > a /\ AllDigits(s, a, Len(s))

\* s matches sign? (digits ('.' digits?)? | '.' digits) exp?: the sign
\* ends at a, the digits at i, the dot and the decimals at j
IsLiteral(s) ==
  \E a \in {0, 1} : \E i \in a..Len(s) : \E j \in i..Len(s) :
    /\ a = 1 => (Len(s) >= 1 /\ s[1] \in Signs)
    /\ AllDigits(s, a, i)
    /\ j > i => (s[i + 1] = "." /\ AllDigits(s, i + 1, j))
    /\ i > a \/ j > i + 1
    /\ j = Len(s) \/ IsExponent(SubSeq(s, j + 1, Len(s)))

\* the length of the longest prefix of s that is a literal, 0 without one
LongestLiteral(s) ==
  CHOOSE k \in 0..Len(s) :
    /\ k = 0 \/ IsLiteral(SubSeq(s, 1, k))
    /\ \A m \in (k + 1)..Len(s) : ~IsLiteral(SubSeq(s, 1, m))

\* the place in s of the exponent marker of the literal s[1 .. len], 0
\* without one
MarkerOf(s, len) ==
  IF \E k \in 1..len : s[k] \in ExpMarks
  THEN CHOOSE k \in 1..len : s[k] \in ExpMarks
  ELSE 0

\* C12: parse_number returns the length of the longest prefix of the line
\* that matches sign? (digits ('.' digits?)? | '.' digits) exp?, and 0 when
\* none does; it leaves the line as it was, but for the marker of an accepted
\* exponent, which becomes 'e'; and is_real is set exactly when the accepted
\* literal holds a dot or an exponent.
C12_LongestLiteral ==
  pc = "lexed" =>
    /\ loc.len = LongestLiteral(dif.rhs_b)
    /\ dif.lhs_b = [k \in 1..Len(dif.rhs_b) |->
                      IF k = MarkerOf(dif.rhs_b, loc.len) THEN "e"
                      ELSE dif.rhs_b[k]]
    /\ loc.len > 0 =>
         (loc.f <=> \E k \in 1..loc.len : dif.rhs_b[k] \in ExpMarks \cup {"."})

\* '1D-3' was accepted with length 4 and stands as '1e-3' in the line
C12_Witness ==
  /\ pc = "lexed" /\ dif.rhs_b = <<"1", "D", "-", "3">>
  /\ dif.lhs_b = <<"1", "e", "-", "3">> /\ loc.len = 4 /\ loc.f

\* the first line of data and what follows it
FirstLine(data) == SubSeq(data, 1, LineLen(data))

RestAfterLine(data) == SubSeq(data, LineLen(data) + 2, Len(data))

\* C13: a ndiff_readLine call leaves in each buffer all the bytes of its own
\* stream up to that stream's next newline or end, and has consumed that
\* line and no more, whatever the lengths of the two lines
C13_OneCompleteLine ==
  [][last'.op = "readLine" =>
       /\ dif'.lhs_b = FirstLine(dif.lhs_f.data)
       /\ dif'.rhs_b = FirstLine(dif.rhs_f.data)
       /\ dif'.lhs_f.data = RestAfterLine(dif.lhs_f.data)
       /\ dif'.rhs_f.data = RestAfterLine(dif.rhs_f.data)]_vars

\* C14: the driver writes a line pair to the output streams only when no
\* difference was surfaced on it, neither a numeric one by ndiff_testNum nor
\* a text one by the ndiff_nextNum call that ended the scan of the line
C14_OnlyAcceptedWritten ==
  [][out' # out => (loc.ret = {} /\ ~(last.op = "nextNum" /\ last.diff))]_vars

\* the comparison state of d is that of a struct just set up
ComparisonStateReset(d) ==
  /\ d.row_i = 0 /\ d.col_i = 0 /\ d.num_i = 0 /\ d.cnt_i = 0
  /\ d.lhs_i = 0 /\ d.rhs_i = 0 /\ d.lhs_b = <<>> /\ d.rhs_b = <<>>
  /\ \A i \in DOMAIN d.reg : d.reg[i] = Zero

\* C15: ndiff_clear zeroes the row, the column, the two counters and the
\* cursors, empties the buffers and zeroes every register, and leaves the
\* streams, the context, the register count and the options max_i, blank
\* and check as they were
C15_ClearKeepsOptions ==
  [][last'.op = "clear" =>
       /\ ComparisonStateReset(dif')
       /\ dif'.lhs_f = dif.lhs_f /\ dif'.rhs_f = dif.rhs_f /\ dif'.cxt = dif.cxt
       /\ dif'.reg_n = dif.reg_n /\ DOMAIN dif'.reg = DOMAIN dif.reg
       /\ dif'.max_i = dif.max_i /\ dif'.blank = dif.blank
       /\ dif'.check = dif.check]_vars

\* the lines a call read from a stream that was f before it and g after it:
\* one for every newline it consumed and one for the end of the file it saw
LinesRead(f, g) ==
  Cardinality({i \in 1..(Len(f.data) - Len(g.data)) : f.data[i] = NL})
    + (IF g.eof THEN 1 ELSE 0)

\* C16: row_i never decreases: ndiff_readLine, ndiff_skipLine and
\* ndiff_fillLine add 1 to it, ndiff_gotoLine and ndiff_gotoNum add the lesser
\* of the numbers of lines they read on the two sides, and ndiff_nextNum and
\* ndiff_testNum leave it as it is
C16_RowSteps ==
  [][/\ dif'.row_i >= dif.row_i
     /\ last'.op \in {"readLine", "skipLine", "fillLine"}
          => dif'.row_i = dif.row_i + 1
     /\ (last'.op \in {"gotoLine", "gotoNum"} /\ pc' = "api")
          => dif'.row_i = dif.row_i + imin(LinesRead(dif.lhs_f, dif'.lhs_f),
                                           LinesRead(dif.rhs_f, dif'.rhs_f))
     /\ last'.op \in {"nextNum", "testNum"}
          => dif'.row_i = dif.row_i]_vars

\* ndiff_gotoLine has read one line on the lhs side and two on the rhs side
C16_Witness ==
  /\ last.op = "gotoLine" /\ dif.row_i = 1
  /\ dif.lhs_f.data = FileOf(<<L_ab>>) /\ dif.rhs_f.data = <<>>
  /\ dif.rhs_f.file = FileOf(<<L_1x2, L_a2b>>)

\* the call of the step surfaced a difference
Surfaced ==
  \/ last'.op = "nextNum" /\ last'.diff
  \/ last'.op = "testNum" /\ last'.axes # {}

Counted == Surfaced /\ "nofail" \notin last'.c.cmd

HeaderWritten == \E i \in DOMAIN last'.log : last'.log[i] = "header"

ScanOrTest == last'.op \in {"nextNum", "testNum"} /\ pc' = "api"

CountAndWarn ==
  /\ dif'.cnt_i = dif.cnt_i + (IF Counted THEN 1 ELSE 0)
  /\ last'.log # <<>> <=> (Counted /\ dif'.cnt_i <= dif.max_i)
  /\ dif'.max_i = dif.max_i

\* C17 as the claim has it: the header is written whenever cnt_i becomes 1
C17_HeaderWhenCountIsOne ==
  [][ScanOrTest => /\ CountAndWarn
                   /\ HeaderWritten <=> (Counted /\ dif'.cnt_i = 1)]_vars

\* C17: a difference surfaced by ndiff_nextNum or ndiff_testNum adds exactly
\* 1 to cnt_i unless the rule commands nofail, whatever max_i is; no other
\* call of the two changes cnt_i; warnings are written exactly for the
\* differences counted up to max_i; the call returns, so the scan goes on
\* as the code has it: the header is one of the warnings, written when
\* cnt_i becomes 1 and max_i is not below 1
C17_HeaderWithinCap ==
  [][ScanOrTest => /\ CountAndWarn
                   /\ HeaderWritten <=> (Counted /\ dif'.cnt_i = 1 /\ dif.max_i >= 1)
                   /\ HeaderWritten => last'.log[1] = "header"]_vars

\* a difference was counted beyond max_i without a warning, and the client
\* is free to call again
C17_Witness ==
  /\ pc = "api" /\ last.op \in {"nextNum", "testNum"}
  /\ (last.diff \/ last.axes # {}) /\ "nofail" \notin last.c.cmd
  /\ dif.max_i = 1 /\ dif.cnt_i = 2 /\ last.log = <<>>

\* tag is a substring of line
Contains(line, tag) ==
  \E k \in 0..(Len(line) - Len(tag)) : SubSeq(line, k + 1, k + Len(tag)) = tag

\* where the lines of data start, the one the end of the file closes too
LineStarts(data) == {1} \cup {i + 1 : i \in {j \in 1..Len(data) : data[j] = NL}}

\* the position behind the line of data that starts at s
LineStop(data, s) ==
  IF \E j \in s..Len(data) : data[j] = NL
  THEN CHOOSE j \in s..Len(data) : data[j] = NL /\ \A k \in s..(j - 1) : data[k] # NL
  ELSE Len(data) + 1

LineAt(data, s) == SubSeq(data, s, LineStop(data, s) - 1)

TagStarts(data, tag) == {s \in LineStarts(data) : Contains(LineAt(data, s), tag)}

FirstTagStart(data, tag) ==
  CHOOSE s \in TagStarts(data, tag) : \A t \in TagStarts(data, tag) : s <= t

\* the line to find in data, and whether the end of the file is seen
TagLine(data, tag) ==
  IF TagStarts(data, tag) = {} THEN [text |-> <<>>, eof |-> TRUE]
  ELSE [text |-> LineAt(data, FirstTagStart(data, tag)),
        eof  |-> LineStop(data, FirstTagStart(data, tag)) = Len(data) + 1]

\* C18: ndiff_gotoLine leaves in each buffer the first line of its own
\* stream, from where the stream stood, that holds the tag, or nothing if
\* the stream ended before such a line; the cursors and col_i are 0; the
\* result is EOF exactly when the end of either stream was seen
C18_GotoLineEachSide ==
  [][last'.op = "gotoLine" =>
       /\ dif'.lhs_b = TagLine(dif.lhs_f.data, last'.c.tag).text
       /\ dif'.rhs_b = TagLine(dif.rhs_f.data, last'.c.tag).text
       /\ dif'.lhs_i = 0 /\ dif'.rhs_i = 0 /\ dif'.col_i = 0
       /\ last'.eof <=> (TagLine(dif.lhs_f.data, last'.c.tag).eof
                           \/ TagLine(dif.rhs_f.data, last'.c.tag).eof)]_vars

\* the lhs stream ended without a line that holds the tag while the rhs
\* side stopped on its first line
C18_Witness ==
  /\ last.op = "gotoLine" /\ last.c.tag = T_x /\ last.eof
  /\ dif.lhs_b = <<>> /\ feof(dif.lhs_f) /\ dif.rhs_b = L_1x2
  /\ dif.rhs_f.data = FileOf(<<L_a2b>>)

\* the step is a ndiff_testNum call that returned
TestReturned == last'.op = "testNum" /\ pc' = "api"

\* the call found a number on both sides
BothNumbers == dif'.lhs_i > dif.lhs_i /\ dif'.rhs_i > dif.rhs_i

\* the registers 1 to 9 hold what the call computed: the two values, their
\* difference, its scaled and offset forms, the ratios to the smaller
\* magnitude and to the digits, or all 0 when a number was missing
RegistersWritten ==
  IF BothNumbers
  THEN /\ dif'.reg[1] = Lhs_d /\ dif'.reg[2] = Rhs_d
       /\ dif'.reg[3] = RSub(Lhs_d, Rhs_d)
       /\ dif'.reg[4] = RMul(last'.c.scl, dif'.reg[3])
       /\ dif'.reg[5] = RAdd(dif'.reg[4], last'.c.off)
       /\ RGt(dif'.reg[8], Zero) /\ RGt(dif'.reg[9], Zero)
       /\ dif'.reg[6] = RDiv(dif'.reg[5], dif'.reg[8])
       /\ dif'.reg[7] = RDiv(dif'.reg[6], dif'.reg[9])
  ELSE \A i \in 1..9 : dif'.reg[i] = Zero

\* the operations of the rule were run on the registers written
OperationsRun ==
  \A k \in DOMAIN last'.c.ops :
    dif'.reg[last'.c.ops[k].dst]
      = RAdd(dif'.reg[last'.c.ops[k].src], dif'.reg[last'.c.ops[k].src2])

\* the registers no operation names are as they were
OthersKept ==
  \A i \in DOMAIN dif.reg :
    (i > 9 /\ \A k \in DOMAIN last'.c.ops : last'.c.ops[k].dst # i)
      => dif'.reg[i] = dif.reg[i]

\* C19: a ndiff_testNum call that returns {} or is commanded save writes
\* the registers 1 to 9 and runs the operations of its rule; any other
\* leaves every register as it was
C19_RegistersOnSuccessOrSave ==
  [][TestReturned =>
       IF last'.axes = {} \/ "save" \in last'.c.cmd
       THEN RegistersWritten /\ OperationsRun /\ OthersKept
            /\ DOMAIN dif'.reg = DOMAIN dif.reg
       ELSE dif'.reg = dif.reg]_vars

\* a difference was returned under a rule with operations and without save
\* after an earlier call had written the registers: they are as it left them
C19_Witness ==
  /\ pc = "api" /\ last.op = "testNum" /\ last.c = C_op /\ last.axes # {}
  /\ dif.reg[10] = RAdd(dif.reg[1], dif.reg[9]) /\ dif.reg[9] # Zero

\* the bytes of b right before position i are tag, all of it
TagPrecedes(b, i, tag) ==
  i >= Len(tag) /\ SubSeq(b, i - Len(tag) + 1, i) = tag

\* the step is a returned ndiff_testNum call under an omit rule that
\* accepted two numbers whose difference is outside the bounds of the rule
OmitAccepted ==
  /\ TestReturned /\ BothNumbers /\ last'.axes = {}
  /\ last'.c.cmd = {"abs", "omit"} /\ AbsViolated

\* C20: a ndiff_testNum call under an omit rule returns {} for two numbers
\* out of tolerance only when the bytes right before each cursor are the
\* whole tag of the rule
C20_OmitNeedsWholeTag ==
  [][OmitAccepted => /\ TagPrecedes(dif.lhs_b, dif.lhs_i, last'.c.tag)
                     /\ TagPrecedes(dif.rhs_b, dif.rhs_i, last'.c.tag)]_vars

\* the line s with every blank deleted
RECURSIVE NoBlanks(_)
NoBlanks(s) ==
  IF s = <<>> THEN <<>>
  ELSE IF Head(s) \in {" ", "\t"} THEN NoBlanks(Tail(s))
  ELSE <<Head(s)>> \o NoBlanks(Tail(s))

\* the two lines are the same but for their blanks
SameButBlanks == NoBlanks(dif.lhs_b) = NoBlanks(dif.rhs_b)

\* C21: on two lines without digits that are the same once their blanks are
\* deleted, ndiff_nextNum under a rule without istr returns 0; with blank
\* set it tells no difference and counts none, with blank clear it tells a
\* text difference whenever the lines differ
C21_BlanksIgnoredWhenSet ==
  /\ pc # "hang"
  /\ (pc = "scanned" /\ SameButBlanks) =>
       /\ last.ret = 0
       /\ dif.blank => (~last.diff /\ dif.cnt_i = 0 /\ last.log = <<>>)
       /\ (~dif.blank /\ dif.lhs_b # dif.rhs_b) => last.diff

\* 'a b' and 'ab' were scanned with blank set and no difference was told
C21_Witness ==
  /\ pc = "scanned" /\ dif.blank /\ last.c = C_abs
  /\ dif.lhs_b = <<"a", " ", "a">> /\ dif.rhs_b = <<"a", "a">>
  /\ last.ret = 0 /\ ~last.diff /\ dif.cnt_i = 0

\* C22: every ndiff_nextNum call returns: the retry loop is left after
\* finitely many passes, whatever the lines, the cursors, the rule and blank
C22_NextNumReturns == ~(pc = "hang" /\ last.op = "nextNum")

\* C23: where ndiff_nextNum has returned a column, parse_number accepts a
\* literal at each cursor, and the ndiff_testNum call the driver makes there
\* never returns the ign axis of a missing number
C23_ColumnsHoldNumbers ==
  /\ pc = "test" => /\ last.op = "nextNum" /\ last.ret > 0
                    /\ parse_number(dif.lhs_b, dif.lhs_i).len > 0
                    /\ parse_number(dif.rhs_b, dif.rhs_i).len > 0
  /\ last.op = "testNum" => "ign" \notin last.axes

\* ' 1' and '+.1' differ and both are numbers: the column was returned
\* with the lhs cursor stepped over the blank, and the numbers were tested
C23_Witness ==
  /\ last.op = "testNum" /\ pc = "cols"
  /\ dif.lhs_b = <<" ", "1">> /\ dif.rhs_b = <<"+", ".", "1">>
  /\ last.lhs_i = 1 /\ last.rhs_i = 0 /\ dif.lhs_i = 2 /\ dif.rhs_i = 3

\* C24: in the driver started on a fresh struct, the local row is the row_i
\* of the struct wherever a rule is looked up for a column and wherever
\* ndiff_testNum is called, whatever rules command the line loads
C24_RowIsStructRow ==
  /\ pc = "loop" /\ last.op = "alloc" => (loc.row = 0 /\ dif.row_i = 0)
  /\ pc \in {"cols", "test", "result"} => loc.row = dif.row_i
  /\ last.op = "testNum" => loc.row = dif.row_i

\* a goto rule passed over the line '1 x 2' on the rhs side and the number
\* column of the second row is about to be tested
C24_Witness ==
  /\ pc = "test" /\ "goto" \in loc.c.cmd /\ loc.row = 2 /\ dif.row_i = 2
  /\ loc.col = 1 /\ dif.rhs_b = L_a2b /\ dif.rhs_f.file = LF_x_a2b

====
